---- MODULE Spec2Model ----
(***************************************************************************)
(* Verification model of edge-policy-hub: the bundle store (audit-store),  *)
(* the tenant engine registry and policy query handler (enforcer), the     *)
(* HTTP enforcement adapter (proxy-http), the MQTT enforcement adapter     *)
(* (bridge-mqtt) and the quota tracker service (quota-tracker).            *)
(*                                                                         *)
(* Each component has its own variables, initial predicate and next-state  *)
(* relation; a component's specification holds the other components'       *)
(* variables at their initial value.                                       *)
(***************************************************************************)
EXTENDS Integers, Sequences, FiniteSets, TLC

VARIABLES
    \* ---- bundle store (services/audit-store/src/storage/policy_bundles.rs)
    rows,          \* table policy_bundles: bundle_id -> row or NoRow
    activating,    \* per caller of activate_bundle: Idle or the row it read
    bsRet,         \* value returned by the store call that just finished
    \* ---- enforcer (services/enforcer)
    engines,       \* PolicyManager.engines: tenant -> engine or NoEngine
    reloading,     \* per reload caller: Idle or the bundle it loaded
    querying,      \* per query_policy request: Idle or the request in flight
    enfRet,        \* value returned by the enforcer call that just finished
    \* ---- HTTP adapter (services/proxy-http)
    httpReq,       \* per client connection: Idle or the request in the pipeline
    httpSent,      \* per client connection: requests sent so far
    upstreamHits,  \* per client connection: requests that reached the upstream
    httpRet,       \* what the client got for the request that just ended
    \* ---- MQTT adapter, topic namespace check (services/bridge-mqtt/src/hooks)
    nsRet,         \* the validate_topic_namespace call that just returned
    \* ---- MQTT adapter (services/bridge-mqtt)
    sessions,      \* SessionStore: client id -> TenantContext or NoContext
    mqttQuota,     \* QuotaTracker.metrics: tenant -> QuotaMetrics or NoMetrics
    publishing,    \* per publish hook in flight: Idle or its state at the await
    mqttNow,       \* the clock, in days
    mqttRet,       \* value returned by the hook that just finished
    \* ---- quota tracker service (services/quota-tracker)
    qtCache,       \* QuotaManager.cache: tenant -> QuotaMetrics or NoMetrics
    qtDbLimits,    \* table quota_limits: tenant -> limits or NoLimits
    incrementing,  \* per increment call in flight: Idle or its position
    qtNow,         \* the clock, in days
    qtSum,         \* history: per tenant, the arguments summed over the period
    qtRet,         \* value returned by the call that just finished
    qtDbUsage,     \* table quota_usage: tenant, quota type, period -> row or NoRow
    resetting,     \* per reset call in flight: Idle or its position
    limiting,      \* per set_limits call in flight: Idle or its position
    qtOps,         \* calls other than increments started so far
    \* ---- the two check_quota functions (bridge-mqtt, quota-tracker)
    cqRet,         \* the check_quota call that just returned
    \* ---- audit log upload (services/audit-store)
    auStatus,      \* table tenants: tenant -> status
    auLogs,        \* table audit_logs of the tenants: log_id -> row or NoRow
    auTask,        \* the upload task: its position in process_uploads
    auEndpoint,    \* the upload endpoint: "unreliable" or "accepting"
    auAcked,       \* history: log ids sent in a batch the endpoint acknowledged
    auFailed,      \* history: log ids sent in a batch whose upload failed
    \* ---- management path (apps/tauri-ui) with the enforcer's bundle directory
    mgDisk,        \* bundles_dir: tenant -> versions v whose policy_v<v>.rego exists
    mgEngines,     \* PolicyManager.engines: tenant -> engine or NoEngine
    mgCmd,         \* the activate command in flight: Idle or its position
    mgRet,         \* value returned by the command that just finished
    \* ---- enforcer decision stream (api/websocket.rs, broadcast channel)
    stRing,        \* broadcast channel: events sent so far and the retained ones
    stSub,         \* connection -> Closed or its subscriber state
    \* ---- enforcer hot-reload watcher (main.rs)
    whEvents,      \* events the filesystem watcher has sent on the channel
    whDone,        \* how many of them the dispatcher has received
    whLog,         \* history: the dispatcher's reload attempts
    \* ---- functions on documents (signing, redaction)
    fnArgs,        \* the arguments of the call under study
    fnRet,         \* what the call returned, NoRet before it
    \* ---- enforcer reloads against a changing bundle directory
    rdDir,         \* bundles_dir: tenant -> the rule set its directory holds
    rdEvents,      \* events of the filesystem watcher not yet dispatched
    rdChanges,     \* directory changes so far
    \* ---- MQTT connections (services/bridge-mqtt/src/broker.rs)
    cnConn,        \* connection -> NoConnection or its client id and context
    cnLast         \* the connection whose publish or subscribe hook ran last

bsVars  == <<rows, activating, bsRet>>
enfVars == <<engines, reloading, querying, enfRet>>
httpVars == <<httpReq, httpSent, upstreamHits, httpRet>>
nsVars  == <<nsRet>>
mqttVars == <<sessions, mqttQuota, publishing, mqttNow, mqttRet>>
qtVars  == <<qtCache, qtDbLimits, incrementing, qtNow, qtSum, qtRet,
             qtDbUsage, resetting, limiting, qtOps>>
cqVars  == <<cqRet>>
auVars  == <<auStatus, auLogs, auTask, auEndpoint, auAcked, auFailed>>
mgVars  == <<mgDisk, mgEngines, mgCmd, mgRet>>
stVars  == <<stRing, stSub>>
whVars  == <<whEvents, whDone, whLog>>
fnVars  == <<fnArgs, fnRet>>
rdVars  == <<rdDir, rdEvents, rdChanges>>
cnVars  == <<cnConn, cnLast>>
vars    == <<bsVars, enfVars, httpVars, nsVars, mqttVars, qtVars, cqVars, auVars,
             mgVars,
             stVars,
             whVars,
             fnVars,
             rdVars,
             cnVars>>

Idle  == [pc |-> "idle"]
NoRet == [op |-> "none"]
Null  == "null"

Tenants == {"t1", "t2"}

(***************************************************************************)
(*                            BUNDLE STORE                                 *)
(***************************************************************************)
MaxBundles == 3
BundleIds  == 1..MaxBundles
Callers    == {"c1", "c2"}
NoRow      == [absent |-> TRUE]
\* status is a free TEXT column; create_policy_bundle deserialises it from the
\* request body and passes it on unchecked
Statuses   == {"draft", "active"}

TenantRows(tbl, t) == {b \in BundleIds : tbl[b] # NoRow /\ tbl[b].tenant_id = t}

RECURSIVE SetMax(_)
SetMax(S) == IF S = {} THEN 0
             ELSE LET x == CHOOSE y \in S : TRUE
                      m == SetMax(S \ {x})
                  IN IF x > m THEN x ELSE m

\* SELECT MAX(version) FROM policy_bundles WHERE tenant_id = ?1 always gives
\* one row, which holds NULL when the tenant has no bundle. row.get(0) reads
\* the column as an i64 (current_version is an Option<i64> only through
\* optional(), which turns "no row" into None): on NULL it fails with
\* InvalidColumnType and the ? returns the error. Otherwise MAX + 1.
query_next_version(tbl, t) ==
    IF TenantRows(tbl, t) = {}
    THEN [result |-> "Err"]
    ELSE [result |-> "Ok",
          version |-> SetMax({tbl[b].version : b \in TenantRows(tbl, t)}) + 1]

\* get_bundle: SELECT ... WHERE bundle_id = ?1, optional
get_bundle(tbl, b) == tbl[b]

\* get_active_bundle: WHERE tenant_id = ?1 AND status = 'active'
\*                    ORDER BY version DESC LIMIT 1
get_active_bundle(tbl, t) ==
    LET act == {b \in TenantRows(tbl, t) : tbl[b].status = "active"}
    IN IF act = {} THEN NoRow
       ELSE tbl[CHOOSE b \in act : \A c \in act : tbl[c].version <= tbl[b].version]

\* store_bundle: query_next_version and one INSERT, both under the connection
\* mutex. bundle_id is the PRIMARY KEY, so a second insert of the same id
\* fails and changes nothing. The row keeps the status the caller supplied;
\* activated_at is supplied too and is None in every request the management
\* path builds.
StoreRet(b, t, result) ==
    [op |-> "store", bundle_id |-> b, tenant_id |-> t, result |-> result]

store_bundle(b, t, st) ==
    /\ LET next_version == query_next_version(rows, t)
       IN IF next_version.result = "Err" \/ rows[b] # NoRow
          THEN /\ rows' = rows
               /\ bsRet' = StoreRet(b, t, "Err")
          ELSE /\ rows' = [rows EXCEPT ![b] =
                             [tenant_id |-> t, version |-> next_version.version,
                              status |-> st, activated_at |-> Null]]
               /\ bsRet' = StoreRet(b, t, "Ok")
    /\ UNCHANGED activating

\* activate_bundle, first half: self.get_bundle(bundle_id)? takes and releases
\* the mutex; "bundle not found" is returned when no row exists.
activate_lookup(c, b) ==
    /\ activating[c] = Idle
    /\ IF get_bundle(rows, b) = NoRow
       THEN /\ activating' = activating
            /\ bsRet' = [op |-> "activate", bundle_id |-> b, result |-> "Err"]
       ELSE /\ activating' = [activating EXCEPT ![c] =
                                [bundle_id |-> b, tenant_id |-> rows[b].tenant_id]]
            /\ bsRet' = NoRet
    /\ UNCHANGED rows

\* the first UPDATE alone, as if it were committed by itself
activate_tx_demote_only(tbl, b, t) ==
    [x \in BundleIds |->
        IF tbl[x] # NoRow /\ tbl[x].tenant_id = t
        THEN [tbl[x] EXCEPT !.status = "inactive", !.activated_at = Null]
        ELSE tbl[x]]

\* The two UPDATEs of the transaction, applied to a table.
activate_tx(tbl, b, t) ==
    LET demoted == [x \in BundleIds |->
                      IF tbl[x] # NoRow /\ tbl[x].tenant_id = t
                      THEN [tbl[x] EXCEPT !.status = "inactive", !.activated_at = Null]
                      ELSE tbl[x]]
    IN [x \in BundleIds |->
          IF x = b /\ demoted[x] # NoRow
          THEN [demoted[x] EXCEPT !.status = "active", !.activated_at = "now"]
          ELSE demoted[x]]

\* activate_bundle, second half: the transaction, under the mutex, committed
\* as a whole.
activate_commit(c) ==
    /\ activating[c] # Idle
    /\ rows' = activate_tx(rows, activating[c].bundle_id, activating[c].tenant_id)
    /\ activating' = [activating EXCEPT ![c] = Idle]
    /\ bsRet' = [op |-> "activate", bundle_id |-> activating[c].bundle_id,
                 result |-> "Ok"]

\* an archive that does not look at the number of rows it updated
archive_bundle_unchecked(b) ==
    /\ rows' = IF rows[b] = NoRow THEN rows
               ELSE [rows EXCEPT ![b].status = "archived"]
    /\ bsRet' = [op |-> "archive", bundle_id |-> b, result |-> "Ok"]
    /\ UNCHANGED activating

\* archive_bundle: one UPDATE; zero rows updated is "bundle not found".
archive_bundle(b) ==
    /\ IF rows[b] = NoRow
       THEN /\ rows' = rows
            /\ bsRet' = [op |-> "archive", bundle_id |-> b, result |-> "Err"]
       ELSE /\ rows' = [rows EXCEPT ![b].status = "archived"]
            /\ bsRet' = [op |-> "archive", bundle_id |-> b, result |-> "Ok"]
    /\ UNCHANGED activating

BsInit ==
    /\ rows = [b \in BundleIds |-> NoRow]
    /\ activating = [c \in Callers |-> Idle]
    /\ bsRet = NoRet

\* PolicyBundleStore::new opens policy_bundles.db as it finds it and creates
\* the table only in a new file: the table is empty, or the file came with
\* tenant t1's first bundle in it, as a draft or activated. The other tenant
\* never has a bundle to start with.
BsSeeds ==
    {NoRow} \cup
    {[tenant_id |-> "t1", version |-> 1, status |-> st,
      activated_at |-> IF st = "active" THEN "now" ELSE Null] : st \in Statuses}

BsSeededInit ==
    /\ \E seed \in BsSeeds :
          rows = [b \in BundleIds |-> IF b = 1 THEN seed ELSE NoRow]
    /\ activating = [c \in Callers |-> Idle]
    /\ bsRet = NoRet

BsOnly == UNCHANGED <<enfVars, httpVars, nsVars, mqttVars, qtVars, cqVars, auVars, mgVars, stVars, whVars, fnVars, rdVars, cnVars>>

StoreBundle ==
    /\ \E b \in BundleIds, t \in Tenants, st \in Statuses : store_bundle(b, t, st)
    /\ BsOnly
\* bundle ids are opaque to the store: a store of a new bundle takes the
\* lowest id no row has, a repeated store any id that is taken
StoreBundleInOrder ==
    /\ \E b \in BundleIds, t \in Tenants, st \in Statuses :
          /\ rows[b] = NoRow => \A x \in BundleIds : rows[x] = NoRow => b <= x
          /\ store_bundle(b, t, st)
    /\ BsOnly
ActivateLookup ==
    /\ \E c \in Callers, b \in BundleIds : activate_lookup(c, b)
    /\ BsOnly
ActivateCommit ==
    /\ \E c \in Callers : activate_commit(c)
    /\ BsOnly
ArchiveBundle ==
    /\ \E b \in BundleIds : archive_bundle(b)
    /\ BsOnly

(***************************************************************************)
(*                               ENFORCER                                  *)
(***************************************************************************)
NoEngine   == [absent |-> TRUE]
NoDecision == [absent |-> TRUE]
NoEvent    == [absent |-> TRUE]

\* The hot-reload watcher and the reload endpoint both call reload_tenant.
Reloaders == {"watcher", "api"}
Queries   == {"q1"}

\* What a tenant's bundle directory can hold:
\*   missing    the path is absent or not a directory (load_bundle fails)
\*   malformed  a .rego file that does not parse (TenantEngine::new fails)
\*   noentry    rules without data.tenants.<tenant>.allow (verification fails)
\*   allow_all / deny_all  rules whose entry point is defined
BundleKinds   == {"missing", "malformed", "noentry", "allow_all", "deny_all"}

\* ---- tenant identifiers as the enforcer receives them ----
MAX_TENANT_ID_LEN == 64
LongId == "x65"
IdChars(s) ==
    CASE s = "t1"   -> <<"t", "1">>
      [] s = "t2"   -> <<"t", "2">>
      [] s = "a/b"  -> <<"a", "/", "b">>
      [] s = ""     -> << >>
      [] s = LongId -> [i \in 1..(MAX_TENANT_ID_LEN + 1) |-> "x"]
\* ch.is_ascii_alphanumeric() || ch == '-' || ch == '_'
IdCharOk(ch) == ch \in {"t", "a", "b", "x", "1", "2", "-", "_"}

UrlTenants   == {"t1", "t2", "a/b", LongId}
\* input.subject.tenant_id as a JSON value
AbsentField  == [type |-> "absent"]
InputTenants == {AbsentField, [type |-> "number", n |-> 7]}
                \cup {[type |-> "string", s |-> x] : x \in {"t1", "t2", "a/b", ""}}

validate_tenant_id_format(tenant_id) ==
    IF Len(IdChars(tenant_id)) = 0 \/ Len(IdChars(tenant_id)) > MAX_TENANT_ID_LEN
    THEN "InvalidTenantId"
    ELSE IF \A i \in 1..Len(IdChars(tenant_id)) : IdCharOk(IdChars(tenant_id)[i])
         THEN "Ok"
         ELSE "InvalidTenantId"

validate_tenant_match_nocompare(url_tenant_id, input_tenant) ==
    IF validate_tenant_id_format(url_tenant_id) # "Ok" THEN "InvalidTenantId"
    ELSE IF input_tenant.type # "string" THEN "MissingInputTenant"
    ELSE validate_tenant_id_format(input_tenant.s)

validate_tenant_match(url_tenant_id, input_tenant) ==
    IF validate_tenant_id_format(url_tenant_id) # "Ok" THEN "InvalidTenantId"
    ELSE IF input_tenant.type # "string" THEN "MissingInputTenant"
    ELSE IF validate_tenant_id_format(input_tenant.s) # "Ok" THEN "InvalidTenantId"
    ELSE IF input_tenant.s # url_tenant_id THEN "Mismatch"
    ELSE "Ok"

map_validation_error(err) ==
    CASE err = "Mismatch"           -> [status |-> 403, code |-> "TENANT_MISMATCH"]
      [] err = "MissingInputTenant" -> [status |-> 400, code |-> "MISSING_TENANT"]
      [] err = "InvalidTenantId"    -> [status |-> 400, code |-> "INVALID_TENANT"]

map_policy_error(err) ==
    CASE err = "TenantNotFound"   -> [status |-> 404, code |-> "TENANT_NOT_FOUND"]
      [] err = "EvaluationFailed" -> [status |-> 500, code |-> "EVALUATION_ERROR"]
      [] err = "BundleLoadError"  -> [status |-> 404, code |-> "TENANT_BUNDLE_ERROR"]
      [] err = "InvalidPolicy"    -> [status |-> 500, code |-> "INVALID_POLICY"]

\* ---- bundle loader and tenant engine ----
load_bundle(dir) ==
    IF dir = "missing" THEN [result |-> "BundleLoadError", bundle |-> dir]
    ELSE [result |-> "Ok", bundle |-> dir]

\* TenantEngine::new: add_policy of every unit, then the derived entry point.
TenantEngine_new(tenant_id, bundle) ==
    IF bundle = "malformed" THEN [result |-> "InvalidPolicy", engine |-> NoEngine]
    ELSE [result |-> "Ok",
          engine |-> [tenant_id |-> tenant_id, policy |-> bundle,
                      entrypoint |-> tenant_id]]

\* engine.eval_rule(entrypoint): the value of the rule, "undefined" if absent.
eval_rule(engine) ==
    CASE engine.policy = "allow_all" -> [type |-> "bool", b |-> TRUE]
      [] engine.policy = "deny_all"  -> [type |-> "bool", b |-> FALSE]
      [] OTHER                       -> [type |-> "undefined"]

verify_entrypoint(engine) ==
    IF eval_rule(engine).type = "undefined" THEN "InvalidPolicy" ELSE "Ok"

parse_decision(value) ==
    IF value.type = "bool"
    THEN [allow |-> value.b, redact |-> Null, reason |-> Null]
    ELSE [allow |-> FALSE, redact |-> Null,
          reason |-> "policy returned undefined result"]

MAX_EVAL_TIME_MS == 10
MaxEvalMs        == 11
\* wall-clock durations an evaluation on the blocking pool can take
EvalTimes == {0, MAX_EVAL_TIME_MS} \cup ((MAX_EVAL_TIME_MS + 1)..MaxEvalMs)

TenantEngine_evaluate_notimeout(engine, elapsed, rule_ok) ==
    IF ~rule_ok THEN [result |-> "EvaluationFailed", decision |-> NoDecision]
    ELSE [result |-> "Ok", decision |-> parse_decision(eval_rule(engine))]

\* TenantEngine::evaluate: timeout(MAX_EVAL_TIME_MS, spawn_blocking(eval_rule));
\* Elapsed, a join error and an evaluation error all become EvaluationFailed.
TenantEngine_evaluate(engine, elapsed, rule_ok) ==
    IF elapsed > MAX_EVAL_TIME_MS
    THEN [result |-> "EvaluationFailed", decision |-> NoDecision]
    ELSE IF ~rule_ok THEN [result |-> "EvaluationFailed", decision |-> NoDecision]
    ELSE [result |-> "Ok", decision |-> parse_decision(eval_rule(engine))]

\* ---- PolicyManager ----
install_tenant_engine_insert_first(engs, tenant_id, bundle) ==
    LET made == TenantEngine_new(tenant_id, bundle)
    IN IF made.result # "Ok" THEN [result |-> made.result, engines |-> engs]
       ELSE [result |-> verify_entrypoint(made.engine),
             engines |-> [engs EXCEPT ![tenant_id] = made.engine]]

\* an install that leaves an engine the tenant already has in place
install_tenant_engine_keep_existing(engs, tenant_id, bundle) ==
    LET made == TenantEngine_new(tenant_id, bundle)
    IN IF made.result # "Ok" THEN [result |-> made.result, engines |-> engs]
       ELSE IF verify_entrypoint(made.engine) # "Ok"
            THEN [result |-> verify_entrypoint(made.engine), engines |-> engs]
            ELSE [result |-> "Ok",
                  engines |-> IF engs[tenant_id] = NoEngine
                              THEN [engs EXCEPT ![tenant_id] = made.engine]
                              ELSE engs]

\* install_tenant_engine: construct, verify, and only then insert under the
\* write lock.
install_tenant_engine(engs, tenant_id, bundle) ==
    LET made == TenantEngine_new(tenant_id, bundle)
    IN IF made.result # "Ok" THEN [result |-> made.result, engines |-> engs]
       ELSE IF verify_entrypoint(made.engine) # "Ok"
            THEN [result |-> verify_entrypoint(made.engine), engines |-> engs]
            ELSE [result |-> "Ok",
                  engines |-> [engs EXCEPT ![tenant_id] = made.engine]]

ReloadRet(t, res) == [op |-> "reload", tenant_id |-> t, result |-> res]

\* reload_tenant / load_tenant, first half: load_bundle reads the tenant's
\* directory, whose content at that moment is dir.
reload_load(r, t, dir) ==
    /\ reloading[r] = Idle
    /\ LET got == load_bundle(dir)
       IN IF got.result # "Ok"
          THEN /\ reloading' = reloading
               /\ enfRet' = ReloadRet(t, got.result)
          ELSE /\ reloading' = [reloading EXCEPT ![r] =
                                  [pc |-> "loaded", tenant_id |-> t, bundle |-> got.bundle]]
               /\ enfRet' = NoRet
    /\ UNCHANGED <<engines, querying>>

\* reload_tenant / load_tenant, second half: install_tenant_engine.
reload_install(r) ==
    /\ reloading[r] # Idle
    /\ LET done == install_tenant_engine(engines, reloading[r].tenant_id,
                                         reloading[r].bundle)
       IN /\ engines' = done.engines
          /\ enfRet' = ReloadRet(reloading[r].tenant_id, done.result)
    /\ reloading' = [reloading EXCEPT ![r] = Idle]
    /\ UNCHANGED querying

QueryRet(url, inp, http, eng, dec, ev, ms) ==
    [op |-> "query", url_tenant |-> url, input_tenant |-> inp,
     status |-> http.status, code |-> http.code,
     engine |-> eng, decision |-> dec, event |-> ev, elapsed |-> ms]

\* query_policy up to the await on the evaluation: path and input validation,
\* then PolicyManager::evaluate clones the tenant's engine under the read lock.
query_start(q, url, inp) ==
    /\ querying[q] = Idle
    /\ IF validate_tenant_id_format(url) # "Ok"
       THEN /\ enfRet' = QueryRet(url, inp,
                           map_validation_error(validate_tenant_id_format(url)),
                           NoEngine, NoDecision, NoEvent, 0)
            /\ querying' = querying
       ELSE IF validate_tenant_match(url, inp) # "Ok"
       THEN /\ enfRet' = QueryRet(url, inp,
                           map_validation_error(validate_tenant_match(url, inp)),
                           NoEngine, NoDecision, NoEvent, 0)
            /\ querying' = querying
       ELSE IF engines[url] = NoEngine
       THEN /\ enfRet' = QueryRet(url, inp, map_policy_error("TenantNotFound"),
                                  NoEngine, NoDecision, NoEvent, 0)
            /\ querying' = querying
       ELSE /\ querying' = [querying EXCEPT ![q] =
                              [pc |-> "evaluating", tenant_id |-> url,
                               input_tenant |-> inp, engine |-> engines[url]]]
            /\ enfRet' = NoRet
    /\ UNCHANGED <<engines, reloading>>

EngineForRun_reread(q) == engines[querying[q].tenant_id]

\* engine.evaluate(input) runs on the clone taken at lookup.
EngineForRun(q) == querying[q].engine

\* query_policy after the await: the evaluation's outcome, the decision event
\* sent on the broadcast channel, and the response.
query_finish(q, elapsed, rule_ok) ==
    /\ querying[q] # Idle
    /\ LET out == TenantEngine_evaluate(EngineForRun(q), elapsed, rule_ok)
           url == querying[q].tenant_id
       IN enfRet' =
            IF out.result # "Ok"
            THEN QueryRet(url, querying[q].input_tenant, map_policy_error(out.result),
                          querying[q].engine, NoDecision, NoEvent, elapsed)
            ELSE QueryRet(url, querying[q].input_tenant,
                          [status |-> 200, code |-> "OK"],
                          querying[q].engine, out.decision,
                          [tenant_id |-> url, decision |-> out.decision], elapsed)
    /\ querying' = [querying EXCEPT ![q] = Idle]
    /\ UNCHANGED <<engines, reloading>>

EnfInit ==
    /\ engines = [t \in Tenants |-> NoEngine]
    /\ reloading = [r \in Reloaders |-> Idle]
    /\ querying = [q \in Queries |-> Idle]
    /\ enfRet = NoRet

EnfOnly == UNCHANGED <<bsVars, httpVars, nsVars, mqttVars, qtVars, cqVars, auVars, mgVars, stVars, whVars, fnVars, rdVars, cnVars>>

ReloadLoad ==
    /\ \E r \in Reloaders, t \in Tenants, dir \in BundleKinds : reload_load(r, t, dir)
    /\ EnfOnly
ReloadInstall ==
    /\ \E r \in Reloaders : reload_install(r)
    /\ EnfOnly
QueryStart ==
    /\ \E q \in Queries, url \in UrlTenants, inp \in InputTenants : query_start(q, url, inp)
    /\ EnfOnly
QueryFinish ==
    /\ \E q \in Queries, ms \in EvalTimes, ok \in BOOLEAN : query_finish(q, ms, ok)
    /\ EnfOnly

(***************************************************************************)
(*                             HTTP ADAPTER                                *)
(* Configuration of the adapter's integration tests: mTLS and JWT off, so  *)
(* the tenant comes from the X-Tenant-ID header; no quota client.          *)
(***************************************************************************)
HttpClients     == {"h1", "h2"}
MaxHttpRequests == 2

\* X-Tenant-ID as sent: a tenant id, or Null when the header is missing
TenantHeaders == {"t1", Null}

\* TenantExtractor::extract_from_request with both mechanisms disabled
extract_from_request(hdr) ==
    IF hdr = Null THEN [ok |-> FALSE, err |-> "TenantIdNotFound", tenant_id |-> Null]
    ELSE [ok |-> TRUE, err |-> Null, tenant_id |-> hdr]

\* What the enforcer answers to the adapter's policy query.
EnforcerReplies ==
    {[status |-> 200, allow |-> TRUE,  redact |-> FALSE],
     [status |-> 200, allow |-> TRUE,  redact |-> TRUE],
     [status |-> 200, allow |-> FALSE, redact |-> FALSE],
     [status |-> 403, allow |-> FALSE, redact |-> FALSE],
     [status |-> 404, allow |-> FALSE, redact |-> FALSE],
     [status |-> 500, allow |-> FALSE, redact |-> FALSE]}

\* PolicyClient::query_policy
client_query_policy(reply) ==
    IF reply.status = 200
    THEN IF ~reply.allow THEN [ok |-> FALSE, err |-> "Denied", redact |-> FALSE]
         ELSE [ok |-> TRUE, err |-> Null, redact |-> reply.redact]
    ELSE IF reply.status = 403 THEN [ok |-> FALSE, err |-> "Denied", redact |-> FALSE]
    ELSE IF reply.status = 404 THEN [ok |-> FALSE, err |-> "TenantNotFound", redact |-> FALSE]
    ELSE [ok |-> FALSE, err |-> "EnforcerError", redact |-> FALSE]

\* What the upstream answers: a transport failure, or a 200 whose body may be
\* JSON, may exceed max_body_size_bytes, and may fail to redact.
UpstreamReplies ==
    {[ok |-> FALSE, json |-> FALSE, oversize |-> FALSE, redact_ok |-> FALSE]}
    \cup {[ok |-> TRUE, json |-> j, oversize |-> o, redact_ok |-> r] :
             j \in BOOLEAN, o \in BOOLEAN, r \in BOOLEAN}

\* Step 5 of handle_request_inner: which body goes back to the client.
response_body(redact, up) ==
    IF redact /\ up.json
    THEN IF up.oversize THEN "original"
         ELSE IF up.redact_ok THEN "redacted" ELSE "original"
    ELSE "original"

\* The hyper service closure hands handle_request's Result to the connection:
\* Ok(response) is written to the client; Err(ProxyError) ends the connection
\* with no response written. json is the response's content type being
\* application/json. audit is the record of step 7 ("Audit logging"),
\* the "Request completed" line written on the way to Ok(response); a request
\* that leaves through `?` or the timeout passes no logging statement.
HttpClosed(c, policy, fwd, err) ==
    [op |-> "http", client |-> c, policy |-> policy, forwarded |-> fwd,
     outcome |-> "closed", proxy_error |-> err,
     status |-> 0, error |-> Null, body |-> "none", audit |-> "none"]
HttpResponse(c, policy, fwd, st, json, body) ==
    [op |-> "http", client |-> c, policy |-> policy, forwarded |-> fwd,
     outcome |-> "response", proxy_error |-> Null,
     status |-> st, error |-> Null, json |-> json, body |-> body,
     audit |-> "Request completed"]

PolicyOutcome(res) ==
    IF res.ok THEN "allow" ELSE IF res.err = "Denied" THEN "deny" ELSE "error"

\* handle_request_inner, step 1-3 up to the await on the enforcer.
http_receive(c, hdr) ==
    /\ httpReq[c] = Idle
    /\ httpSent[c] < MaxHttpRequests
    /\ httpSent' = [httpSent EXCEPT ![c] = @ + 1]
    /\ IF ~extract_from_request(hdr).ok
       THEN /\ httpRet' = HttpClosed(c, "none", FALSE, extract_from_request(hdr).err)
            /\ httpReq' = httpReq
       ELSE /\ httpReq' = [httpReq EXCEPT ![c] =
                             [pc |-> "policy",
                              tenant_id |-> extract_from_request(hdr).tenant_id,
                              redact |-> FALSE]]
            /\ httpRet' = NoRet
    /\ UNCHANGED upstreamHits

\* handle_request_inner, the enforcer's answer: `query_policy(..).await?`
\* returns the error, otherwise the request is forwarded to the upstream.
http_policy_reply(c, reply) ==
    /\ httpReq[c] # Idle /\ httpReq[c].pc = "policy"
    /\ LET res == client_query_policy(reply)
       IN IF ~res.ok
          THEN /\ httpRet' = HttpClosed(c, PolicyOutcome(res), FALSE, res.err)
               /\ httpReq' = [httpReq EXCEPT ![c] = Idle]
               /\ UNCHANGED upstreamHits
          ELSE /\ httpReq' = [httpReq EXCEPT ![c] =
                                [pc |-> "upstream", tenant_id |-> httpReq[c].tenant_id,
                                 redact |-> res.redact]]
               /\ upstreamHits' = [upstreamHits EXCEPT ![c] = @ + 1]
               /\ httpRet' = NoRet
    /\ UNCHANGED httpSent

\* handle_request_inner, step 4-7 after the upstream answered.
http_upstream_reply(c, up) ==
    /\ httpReq[c] # Idle /\ httpReq[c].pc = "upstream"
    /\ httpRet' = IF ~up.ok THEN HttpClosed(c, "allow", TRUE, "Upstream")
                  ELSE HttpResponse(c, "allow", TRUE, 200, up.json,
                                    response_body(httpReq[c].redact, up))
    /\ httpReq' = [httpReq EXCEPT ![c] = Idle]
    /\ UNCHANGED <<httpSent, upstreamHits>>

\* handle_request: the pipeline's timeout fires and Err(Timeout) is returned.
http_timeout(c) ==
    /\ httpReq[c] # Idle
    /\ httpRet' = HttpClosed(c, IF httpReq[c].pc = "upstream" THEN "allow" ELSE "none",
                             httpReq[c].pc = "upstream", "Timeout")
    /\ httpReq' = [httpReq EXCEPT ![c] = Idle]
    /\ UNCHANGED <<httpSent, upstreamHits>>

HttpInit ==
    /\ httpReq = [c \in HttpClients |-> Idle]
    /\ httpSent = [c \in HttpClients |-> 0]
    /\ upstreamHits = [c \in HttpClients |-> 0]
    /\ httpRet = NoRet

HttpOnly == UNCHANGED <<bsVars, enfVars, nsVars, mqttVars, qtVars, cqVars, auVars, mgVars, stVars, whVars, fnVars, rdVars, cnVars>>

HttpReceive ==
    /\ \E c \in HttpClients, hdr \in TenantHeaders : http_receive(c, hdr)
    /\ HttpOnly
HttpPolicyReply ==
    /\ \E c \in HttpClients, reply \in EnforcerReplies : http_policy_reply(c, reply)
    /\ HttpOnly
HttpUpstreamReply ==
    /\ \E c \in HttpClients, up \in UpstreamReplies : http_upstream_reply(c, up)
    /\ HttpOnly
HttpTimeout ==
    /\ \E c \in HttpClients : http_timeout(c)
    /\ HttpOnly

(***************************************************************************)
(*                  MQTT ADAPTER: TOPIC NAMESPACE CHECK                    *)
(* Topics, filters and patterns are strings, modelled as sequences of      *)
(* tokens; "/" is the level separator and "{tenant_id}" the placeholder.   *)
(***************************************************************************)
MaxTopicLen == 3
TopicTokens == {"t1", "t2", "a", "+", "#", "/"}
\* every non-empty topic or filter string of at most MaxTopicLen tokens
TopicStrings == UNION {[1..n -> TopicTokens] : n \in 1..MaxTopicLen}

\* topic_namespace_pattern values that BridgeConfig::validate accepts (each
\* contains the placeholder); the first is the default.
NamespacePatterns ==
    {<<"{tenant_id}", "/", "#">>,
     <<"{tenant_id}", "/", "+">>,
     <<"a", "/", "{tenant_id}", "/", "#">>,
     <<"#", "/", "{tenant_id}">>}

\* BridgeConfig::validate, the check on the pattern
pattern_is_valid(pattern) == \E i \in 1..Len(pattern) : pattern[i] = "{tenant_id}"

\* pattern.replace("{tenant_id}", tenant_id)
replace_tenant(pattern, tenant_id) ==
    [i \in 1..Len(pattern) |-> IF pattern[i] = "{tenant_id}" THEN tenant_id ELSE pattern[i]]

\* str::split('/'): the segments between separators; a string without a
\* separator is one segment, and segments may be empty.
RECURSIVE split(_)
split(str) ==
    IF \A i \in 1..Len(str) : str[i] # "/"
    THEN <<str>>
    ELSE LET i == CHOOSE j \in 1..Len(str) :
                     str[j] = "/" /\ \A k \in 1..(j - 1) : str[k] # "/"
         IN <<SubSeq(str, 1, i - 1)>> \o split(SubSeq(str, i + 1, Len(str)))

Plus == <<"+">>
Hash == <<"#">>

\* match_mqtt_pattern, the while loop from (p_idx, t_idx) and the tail check
RECURSIVE match_mqtt_pattern(_, _, _, _)
match_mqtt_pattern(pattern_segments, topic_segments, p_idx, t_idx) ==
    IF p_idx <= Len(pattern_segments) /\ t_idx <= Len(topic_segments)
    THEN IF pattern_segments[p_idx] = Hash THEN TRUE
         ELSE IF pattern_segments[p_idx] = Plus
         THEN match_mqtt_pattern(pattern_segments, topic_segments, p_idx + 1, t_idx + 1)
         ELSE IF pattern_segments[p_idx] # topic_segments[t_idx] THEN FALSE
         ELSE match_mqtt_pattern(pattern_segments, topic_segments, p_idx + 1, t_idx + 1)
    ELSE IF p_idx <= Len(pattern_segments)
         THEN pattern_segments[p_idx] = Hash
         ELSE t_idx > Len(topic_segments)

validate_topic_namespace(pattern, topic, tenant_id) ==
    LET pattern_segments == split(replace_tenant(pattern, tenant_id))
        topic_segments   == split(topic)
    IN IF topic_segments[1] = Plus \/ topic_segments[1] = Hash
       THEN FALSE
       ELSE match_mqtt_pattern(pattern_segments, topic_segments, 1, 1)

\* One call of the check, as handle_message_publish and handle_client_subscribe
\* make it for a session of tenant_id.
validate_call(pattern, topic, tenant_id) ==
    /\ nsRet = NoRet
    /\ pattern_is_valid(pattern)
    /\ nsRet' = [op |-> "validate", pattern |-> pattern, topic |-> topic,
                 tenant_id |-> tenant_id,
                 passes |-> validate_topic_namespace(pattern, topic, tenant_id)]

NsInit == nsRet = NoRet

NsOnly == UNCHANGED <<bsVars, enfVars, httpVars, mqttVars, qtVars, cqVars, auVars, mgVars, stVars, whVars, fnVars, rdVars, cnVars>>

ValidateTopic ==
    /\ \E pattern \in NamespacePatterns, topic \in TopicStrings, t \in Tenants :
          validate_call(pattern, topic, t)
    /\ NsOnly

(***************************************************************************)
(*                             MQTT ADAPTER                                *)
(* Default configuration (mTLS off, payload transformation on, default     *)
(* namespace pattern) with scaled-down limits.                             *)
(***************************************************************************)
NoContext == [absent |-> TRUE]
NoMetrics == [absent |-> TRUE]

enable_mtls    == FALSE
DefaultPattern == <<"{tenant_id}", "/", "#">>
MessageLimit        == 2
BandwidthLimitBytes == 3
MaxNow              == 1
PayloadSizes        == {1}

MqttClientIds == {"t1/dev1", "t2/dev1"}
\* CONNECT usernames: none, tenant:user, and one with too many separators
MqttUsernames == {Null, "t1:alice", "a:b:c"}
Publishers    == {"p1", "p2"}
MqttTopics    == {<<"t1", "/", "a">>, <<"t2", "/", "a">>}

\* client_id.split('/') and username.split(':') of the identifiers above
ClientIdParts(client_id) ==
    CASE client_id = "t1/dev1" -> <<"t1", "dev1">>
      [] client_id = "t2/dev1" -> <<"t2", "dev1">>
UsernameParts(username) ==
    CASE username = "t1:alice" -> <<"t1", "alice">>
      [] username = "a:b:c"    -> <<"a", "b", "c">>

extract_from_username(username) ==
    LET parts == UsernameParts(username)
    IN IF Len(parts) = 1 THEN [ok |-> TRUE, tenant_id |-> parts[1], user_id |-> Null]
       ELSE IF Len(parts) = 2
       THEN [ok |-> TRUE, tenant_id |-> parts[1], user_id |-> parts[2]]
       ELSE [ok |-> FALSE, tenant_id |-> Null, user_id |-> Null]

extract_from_client_id(client_id) ==
    LET parts == ClientIdParts(client_id)
    IN IF Len(parts) = 2
       THEN [ok |-> TRUE, tenant_id |-> parts[1], device_id |-> parts[2]]
       ELSE [ok |-> TRUE, tenant_id |-> parts[1], device_id |-> Null]

\* extract_tenant_context: certificate (only with mTLS), then username, then
\* the client id, which supplies the tenant only if nothing else did.
extract_tenant_context(client_id, username, cert_tenant) ==
    LET from_cert == IF enable_mtls /\ cert_tenant # Null THEN cert_tenant ELSE Null
        uname     == IF username # Null THEN extract_from_username(username)
                     ELSE [ok |-> FALSE, tenant_id |-> Null, user_id |-> Null]
        cid       == extract_from_client_id(client_id)
    IN IF uname.ok /\ from_cert # Null /\ from_cert # uname.tenant_id
       THEN [ok |-> FALSE, err |-> "TenantIdMismatch", context |-> NoContext]
       ELSE LET tenant_id == IF from_cert # Null THEN from_cert
                             ELSE IF uname.ok THEN uname.tenant_id
                             ELSE IF cid.ok THEN cid.tenant_id ELSE Null
                source    == IF from_cert # Null THEN "Certificate"
                             ELSE IF uname.ok THEN "Username" ELSE "ClientId"
            IN IF tenant_id = Null
               THEN [ok |-> FALSE, err |-> "TenantIdNotFound", context |-> NoContext]
               ELSE [ok |-> TRUE, err |-> Null,
                     context |-> [tenant_id |-> tenant_id,
                                  user_id |-> IF uname.ok THEN uname.user_id ELSE Null,
                                  device_id |-> IF cid.ok THEN cid.device_id ELSE Null,
                                  auth_source |-> source]]

\* RmqttPolicyAdapter::extract_cert_der always yields None
extract_cert_der == Null

\* ---- QuotaTracker ----
\* (now - last_reset).num_days(), with times in whole days
num_days(duration) == duration

\* QuotaTracker::check_quota on what get_metrics returned, for a tracker built
\* with the given limits
QuotaTracker_check_quota(metrics, message_limit, bandwidth_limit_bytes) ==
    IF metrics = NoMetrics THEN [result |-> "Ok", limit |-> 0, current |-> 0]
    ELSE IF metrics.message_count >= message_limit
    THEN [result |-> "LimitExceeded", limit |-> message_limit,
          current |-> metrics.message_count]
    ELSE IF metrics.bytes_sent >= bandwidth_limit_bytes
    THEN [result |-> "LimitExceeded", limit |-> bandwidth_limit_bytes,
          current |-> metrics.bytes_sent]
    ELSE [result |-> "Ok", limit |-> 0, current |-> 0]

check_quota(tenant_id) ==
    QuotaTracker_check_quota(mqttQuota[tenant_id], MessageLimit,
                             BandwidthLimitBytes).result

\* an increment that counts the message and not its bytes
increment_message_count_no_bytes(metrics, tenant_id, payload_size, now) ==
    LET entry == IF metrics[tenant_id] = NoMetrics
                 THEN [message_count |-> 0, bytes_sent |-> 0, last_reset |-> now]
                 ELSE metrics[tenant_id]
    IN [metrics EXCEPT ![tenant_id] =
            [message_count |-> entry.message_count + 1,
             bytes_sent    |-> entry.bytes_sent,
             last_reset    |-> entry.last_reset]]

increment_message_count(metrics, tenant_id, payload_size, now) ==
    LET entry == IF metrics[tenant_id] = NoMetrics
                 THEN [message_count |-> 0, bytes_sent |-> 0, last_reset |-> now]
                 ELSE metrics[tenant_id]
        fresh == IF num_days(now - entry.last_reset) >= 1
                 THEN [message_count |-> 0, bytes_sent |-> 0, last_reset |-> now]
                 ELSE entry
    IN [metrics EXCEPT ![tenant_id] =
            [message_count |-> fresh.message_count + 1,
             bytes_sent    |-> fresh.bytes_sent + payload_size,
             last_reset    |-> fresh.last_reset]]

\* What the enforcer answers to a publish or subscribe query.
MqttPolicyReplies == {"allow", "allow_transform", "deny", "error"}

\* ---- hooks ----
mqtt_connect(client_id, username) ==
    /\ LET got == extract_tenant_context(client_id, username, extract_cert_der)
       IN IF got.ok
          THEN /\ sessions' = [sessions EXCEPT ![client_id] = got.context]
               /\ mqttRet' = [op |-> "connect", client_id |-> client_id,
                              username |-> username, result |-> "Ok"]
          ELSE /\ sessions' = sessions
               /\ mqttRet' = [op |-> "connect", client_id |-> client_id,
                              username |-> username, result |-> got.err]
    /\ UNCHANGED <<mqttQuota, publishing, mqttNow>>

\* a disconnect hook that leaves the session store as it is
mqtt_disconnect_keep(client_id) ==
    /\ sessions[client_id] # NoContext
    /\ sessions' = sessions
    /\ mqttRet' = [op |-> "disconnect", client_id |-> client_id]
    /\ UNCHANGED <<mqttQuota, publishing, mqttNow>>

\* handle_client_disconnected: remove_context(client_id)
mqtt_disconnect(client_id) ==
    /\ sessions[client_id] # NoContext
    /\ sessions' = [sessions EXCEPT ![client_id] = NoContext]
    /\ mqttRet' = [op |-> "disconnect", client_id |-> client_id]
    /\ UNCHANGED <<mqttQuota, publishing, mqttNow>>

PublishRet(client_id, res, payload) ==
    [op |-> "publish", client_id |-> client_id, result |-> res, payload |-> payload]

\* handle_message_publish up to the await on the policy query: session lookup,
\* namespace check, quota check.
mqtt_publish_start(p, client_id, topic, size) ==
    /\ publishing[p] = Idle
    /\ IF sessions[client_id] = NoContext
       THEN /\ mqttRet' = PublishRet(client_id, "Client not authenticated", "none")
            /\ publishing' = publishing
       ELSE IF ~validate_topic_namespace(DefaultPattern, topic, sessions[client_id].tenant_id)
       THEN /\ mqttRet' = PublishRet(client_id, "Topic namespace violation", "none")
            /\ publishing' = publishing
       ELSE IF check_quota(sessions[client_id].tenant_id) # "Ok"
       THEN /\ mqttRet' = PublishRet(client_id, "Quota limit exceeded", "none")
            /\ publishing' = publishing
       ELSE /\ publishing' = [publishing EXCEPT ![p] =
                                 [pc |-> "policy", client_id |-> client_id,
                                  tenant_id |-> sessions[client_id].tenant_id,
                                  payload_size |-> size]]
            /\ mqttRet' = NoRet
    /\ UNCHANGED <<sessions, mqttQuota, mqttNow>>

\* handle_message_publish after the await: a denial or an error is returned;
\* otherwise the payload is transformed (a failed transformation passes the
\* original on) and the quota is incremented.
mqtt_publish_finish(p, reply, transform_ok) ==
    /\ publishing[p] # Idle
    /\ IF reply \in {"deny", "error"}
       THEN /\ mqttRet' = PublishRet(publishing[p].client_id, "Policy enforcement error", "none")
            /\ mqttQuota' = mqttQuota
       ELSE /\ mqttQuota' = increment_message_count(mqttQuota, publishing[p].tenant_id,
                                                    publishing[p].payload_size, mqttNow)
            /\ mqttRet' = PublishRet(publishing[p].client_id, "Ok",
                             IF reply = "allow_transform" /\ transform_ok
                             THEN "transformed" ELSE "original")
    /\ publishing' = [publishing EXCEPT ![p] = Idle]
    /\ UNCHANGED <<sessions, mqttNow>>

\* handle_client_subscribe: session lookup, namespace check, policy query.
mqtt_subscribe(client_id, topic_filter, reply) ==
    /\ mqttRet' = [op |-> "subscribe", client_id |-> client_id, result |->
                     IF sessions[client_id] = NoContext THEN "Client not authenticated"
                     ELSE IF ~validate_topic_namespace(DefaultPattern, topic_filter,
                                                       sessions[client_id].tenant_id)
                     THEN "Topic namespace violation"
                     ELSE IF reply \in {"deny", "error"} THEN "Policy enforcement error"
                     ELSE "Ok"]
    /\ UNCHANGED <<sessions, mqttQuota, publishing, mqttNow>>

\* a day passes
mqtt_tick ==
    /\ mqttNow < MaxNow
    /\ mqttNow' = mqttNow + 1
    /\ mqttRet' = NoRet
    /\ UNCHANGED <<sessions, mqttQuota, publishing>>

MqttInit ==
    /\ sessions = [c \in MqttClientIds |-> NoContext]
    /\ mqttQuota = [t \in Tenants |-> NoMetrics]
    /\ publishing = [p \in Publishers |-> Idle]
    /\ mqttNow = 0
    /\ mqttRet = NoRet

MqttOnly == UNCHANGED <<bsVars, enfVars, httpVars, nsVars, qtVars, cqVars, auVars, mgVars, stVars, whVars, fnVars, rdVars, cnVars>>

MqttConnect ==
    /\ \E c \in MqttClientIds, u \in MqttUsernames : mqtt_connect(c, u)
    /\ MqttOnly
MqttDisconnect ==
    /\ \E c \in MqttClientIds : mqtt_disconnect(c)
    /\ MqttOnly
MqttPublishStart ==
    /\ \E p \in Publishers, c \in MqttClientIds, topic \in MqttTopics, n \in PayloadSizes :
          mqtt_publish_start(p, c, topic, n)
    /\ MqttOnly
MqttPublishFinish ==
    /\ \E p \in Publishers, reply \in MqttPolicyReplies, ok \in BOOLEAN :
          mqtt_publish_finish(p, reply, ok)
    /\ MqttOnly
MqttSubscribe ==
    /\ \E c \in MqttClientIds, f \in MqttTopics, reply \in MqttPolicyReplies :
          mqtt_subscribe(c, f, reply)
    /\ MqttOnly
MqttTick ==
    /\ mqtt_tick
    /\ MqttOnly

\* one publish at a time, with payloads of one and of two bytes
MqttPublishStartOne ==
    /\ \E c \in MqttClientIds, topic \in MqttTopics, n \in {1, 2} :
          mqtt_publish_start("p1", c, topic, n)
    /\ MqttOnly

(***************************************************************************)
(*                         QUOTA TRACKER SERVICE                           *)
(* Default configuration (enable_auto_reset on) with scaled-down limits    *)
(* and a calendar of DaysPerMonth days per month.  Counters stay far below *)
(* u64::MAX, so saturating_add is plain addition here.                     *)
(***************************************************************************)
NoLimits == [absent |-> TRUE]

QtTenants     == {"t1", "t2"}
\* the tenants that calls name
QtCalled      == {"t1"}
QtCallers     == {"i1", "i2"}
MaxIncrements == 3
MaxQtDay      == 2
DaysPerMonth  == 2
enable_auto_reset           == TRUE
default_message_limit       == 5
default_bandwidth_limit     == 4
\* message_count and bytes_sent of an increment request, after unwrap_or
QtMessages == {0, 2}
QtBytes    == {0, 1}

current_day_period(now)   == now
current_month_period(now) == now \div DaysPerMonth

\* ensure_entry, the limits it settles on: the stored ones, else the defaults
entry_limits(t) ==
    IF qtDbLimits[t] # NoLimits THEN qtDbLimits[t]
    ELSE [message_limit |-> default_message_limit,
          bandwidth_limit_bytes |-> default_bandwidth_limit]

\* ensure_entry, the metrics it inserts
fresh_metrics(limits, now) ==
    [message_count |-> 0, bytes_sent |-> 0,
     message_limit |-> limits.message_limit,
     bandwidth_limit_bytes |-> limits.bandwidth_limit_bytes,
     last_reset |-> now, period |-> current_day_period(now)]

\* increment_message_count on the entry it holds (get_mut): the day and month
\* resets, then the additions.
apply_increment(entry, messages, bytes, now) ==
    LET day_reset   == enable_auto_reset /\ entry.period # current_day_period(now)
        month_reset == enable_auto_reset
                       /\ current_month_period(now) # current_month_period(entry.last_reset)
        msg_inc     == IF messages = 0 THEN 1 ELSE messages
    IN [entry EXCEPT
          !.period        = IF day_reset THEN current_day_period(now) ELSE @,
          !.message_count = (IF day_reset THEN 0 ELSE @) + msg_inc,
          !.bytes_sent    = (IF month_reset THEN 0 ELSE @) + bytes,
          !.last_reset    = IF month_reset THEN now ELSE @]

IncrementRet(t, entry) ==
    [op |-> "increment", tenant_id |-> t,
     message_count |-> entry.message_count, bytes_sent |-> entry.bytes_sent]

\* the history of a call that takes effect now: its arguments, and the
\* message increment the code derives from them (counted)
note_increment(t, messages, bytes) ==
    qtSum' = [qtSum EXCEPT ![t] = [messages |-> @.messages + messages,
                                   counted  |-> @.counted
                                                + (IF messages = 0 THEN 1 ELSE messages),
                                   bytes    |-> @.bytes + bytes,
                                   calls    |-> @.calls + 1,
                                   sets     |-> @.sets]]

\* increment_quota -> increment_message_count: ensure_entry finds the entry and
\* the counters are updated; or it finds none and reads the limits to build one.
qt_increment_begin(c, t, messages, bytes) ==
    /\ incrementing[c] = Idle
    /\ qtSum[t].calls + Cardinality({d \in QtCallers : incrementing[d] # Idle})
         < MaxIncrements
    /\ IF qtCache[t] # NoMetrics
       THEN /\ qtCache' = [qtCache EXCEPT ![t] = apply_increment(@, messages, bytes, qtNow)]
            /\ qtRet' = IncrementRet(t, apply_increment(qtCache[t], messages, bytes, qtNow))
            /\ note_increment(t, messages, bytes)
            /\ UNCHANGED <<incrementing, qtDbLimits>>
       ELSE /\ incrementing' = [incrementing EXCEPT ![c] =
                                  [pc |-> "insert", tenant_id |-> t,
                                   messages |-> messages, bytes |-> bytes,
                                   limits |-> entry_limits(t)]]
            /\ qtDbLimits' = [qtDbLimits EXCEPT ![t] = entry_limits(t)]
            /\ qtRet' = NoRet
            /\ UNCHANGED <<qtCache, qtSum>>
    /\ UNCHANGED qtNow

\* ensure_entry: cache.insert of the fresh metrics
qt_increment_insert(c) ==
    /\ incrementing[c] # Idle /\ incrementing[c].pc = "insert"
    /\ qtCache' = [qtCache EXCEPT ![incrementing[c].tenant_id] =
                      fresh_metrics(incrementing[c].limits, qtNow)]
    /\ incrementing' = [incrementing EXCEPT ![c] = [@ EXCEPT !.pc = "update"]]
    /\ qtRet' = NoRet
    /\ UNCHANGED <<qtDbLimits, qtNow, qtSum>>

\* increment_message_count after ensure_entry: get_mut and the update
qt_increment_update(c) ==
    /\ incrementing[c] # Idle /\ incrementing[c].pc = "update"
    /\ LET t  == incrementing[c].tenant_id
           nu == apply_increment(qtCache[t], incrementing[c].messages,
                                 incrementing[c].bytes, qtNow)
       IN /\ qtCache' = [qtCache EXCEPT ![t] = nu]
          /\ qtRet' = IncrementRet(t, nu)
          /\ note_increment(t, incrementing[c].messages, incrementing[c].bytes)
    /\ incrementing' = [incrementing EXCEPT ![c] = Idle]
    /\ UNCHANGED <<qtDbLimits, qtNow>>

\* midnight: a new day, and every DaysPerMonth days a new month, begins
qt_tick ==
    /\ qtNow < MaxQtDay
    /\ qtNow' = qtNow + 1
    /\ qtSum' = [t \in QtTenants |->
                   [messages |-> 0,
                    counted  |-> 0,
                    bytes    |-> IF current_month_period(qtNow + 1) # current_month_period(qtNow)
                                 THEN 0 ELSE qtSum[t].bytes,
                    calls    |-> qtSum[t].calls,
                    sets     |-> qtSum[t].sets]]
    /\ qtRet' = NoRet
    /\ UNCHANGED <<qtCache, qtDbLimits, incrementing>>

(***************************************************************************)
(* The rest of the quota tracker service: quota checks, limits, manual     *)
(* reset, the persistence task and a stop followed by a start.             *)
(***************************************************************************)
MESSAGE_QUOTA_TYPE   == "message_count"
BANDWIDTH_QUOTA_TYPE == "bandwidth"

QtResetters == {"r1"}
QtSetters   == {"s1"}
MaxQtOps    == 2
QtDays      == 0..MaxQtDay
QtMonths    == 0..current_month_period(MaxQtDay)
\* bandwidth_limit_gb is a float: the model gives it in GbUnits-ths of the
\* byte unit, so that the cast to u64 truncates
GbUnits == 2
gb_to_bytes(gb) == gb \div GbUnits
\* message_limit and bandwidth_limit_gb of a set_limits request
QtLimitInputs == {[message_limit |-> 0, bandwidth_limit_gb |-> 2],
                  [message_limit |-> 2, bandwidth_limit_gb |-> 1]}

\* the periods a quota type is stored under
UsagePeriods(quota_type) ==
    IF quota_type = MESSAGE_QUOTA_TYPE THEN QtDays ELSE QtMonths

save_usage(db, t, period, quota_type, used) ==
    [db EXCEPT ![t][quota_type][period] = [used |-> used]]

load_usage(db, t, period, quota_type) ==
    IF db[t][quota_type][period] = NoRow THEN 0
    ELSE db[t][quota_type][period].used

is_message_limit_exceeded(metrics) ==
    metrics.message_limit > 0 /\ metrics.message_count >= metrics.message_limit

is_bandwidth_limit_exceeded(metrics) ==
    metrics.bandwidth_limit_bytes > 0
    /\ metrics.bytes_sent >= metrics.bandwidth_limit_bytes

\* QuotaManager::check_quota on what get_metrics returned
QuotaManager_check_quota(metrics) ==
    IF metrics = NoMetrics
    THEN [result |-> "TenantNotFound", quota_type |-> Null, limit |-> 0, current |-> 0]
    ELSE IF is_message_limit_exceeded(metrics)
    THEN [result |-> "LimitExceeded", quota_type |-> MESSAGE_QUOTA_TYPE,
          limit |-> metrics.message_limit, current |-> metrics.message_count]
    ELSE IF is_bandwidth_limit_exceeded(metrics)
    THEN [result |-> "LimitExceeded", quota_type |-> BANDWIDTH_QUOTA_TYPE,
          limit |-> metrics.bandwidth_limit_bytes, current |-> metrics.bytes_sent]
    ELSE [result |-> "Ok", quota_type |-> Null, limit |-> 0, current |-> 0]

\* POST /api/quota/check
qt_check(t) ==
    /\ qtRet' = [op |-> "check", tenant_id |-> t,
                 check |-> QuotaManager_check_quota(qtCache[t])]
    /\ UNCHANGED <<qtCache, qtDbLimits, incrementing, qtNow, qtSum,
                   qtDbUsage, resetting, limiting, qtOps>>

\* persist_all, one turn of its loop: the entry is cloned and its two rows
\* are saved while the iterator holds the entry; a failing save ends the run
PersistOutcomes == {"ok", "message_failed", "bandwidth_failed"}
persist_entry(db, t, metrics, now, outcome) ==
    IF outcome = "message_failed" THEN db
    ELSE LET saved == save_usage(db, t, metrics.period, MESSAGE_QUOTA_TYPE,
                                 metrics.message_count)
         IN IF outcome = "bandwidth_failed" THEN saved
            ELSE save_usage(saved, t, current_month_period(now),
                            BANDWIDTH_QUOTA_TYPE, metrics.bytes_sent)

\* start_persistence_task: the interval fires
qt_persist(t, outcome) ==
    /\ qtOps < MaxQtOps
    /\ qtCache[t] # NoMetrics
    /\ qtDbUsage' = persist_entry(qtDbUsage, t, qtCache[t], qtNow, outcome)
    /\ qtOps' = qtOps + 1
    /\ qtRet' = NoRet
    /\ UNCHANGED <<qtCache, qtDbLimits, incrementing, qtNow, qtSum,
                   resetting, limiting>>

\* load_from_database: one entry per quota_limits row, its counters read from
\* the rows of the current day and month
load_from_database(limits, usage, now) ==
    [t \in QtTenants |->
        IF limits[t] = NoLimits THEN NoMetrics
        ELSE [message_count |-> load_usage(usage, t, current_day_period(now),
                                           MESSAGE_QUOTA_TYPE),
              bytes_sent    |-> load_usage(usage, t, current_month_period(now),
                                           BANDWIDTH_QUOTA_TYPE),
              message_limit |-> limits[t].message_limit,
              bandwidth_limit_bytes |-> limits[t].bandwidth_limit_bytes,
              last_reset |-> now, period |-> current_day_period(now)]]

\* the process stops (main returns when serve does, the cache and the calls in
\* flight go with it) and is started again
qt_restart ==
    /\ qtOps < MaxQtOps
    /\ qtCache' = load_from_database(qtDbLimits, qtDbUsage, qtNow)
    /\ incrementing' = [c \in QtCallers |-> Idle]
    /\ resetting' = [c \in QtResetters |-> Idle]
    /\ limiting' = [c \in QtSetters |-> Idle]
    /\ qtOps' = qtOps + 1
    /\ qtRet' = [op |-> "restart"]
    /\ UNCHANGED <<qtDbLimits, qtDbUsage, qtNow, qtSum>>

limits_of(metrics) ==
    [message_limit |-> metrics.message_limit,
     bandwidth_limit_bytes |-> metrics.bandwidth_limit_bytes]

\* reset_quota with the byte counter left as it is
reset_metrics_keep_bytes(entry, now) ==
    [entry EXCEPT !.message_count = 0,
                  !.period = current_day_period(now), !.last_reset = now]

\* reset_quota, the update under get_mut
reset_metrics(entry, now) ==
    [entry EXCEPT !.message_count = 0, !.bytes_sent = 0,
                  !.period = current_day_period(now), !.last_reset = now]

\* the history starts again with a reset
note_reset(t) ==
    qtSum' = [qtSum EXCEPT ![t] = [@ EXCEPT !.messages = 0, !.counted = 0,
                                            !.bytes = 0]]

ResetRet(r, result) ==
    [op |-> "reset", tenant_id |-> r.tenant_id, result |-> result,
     started |-> r.started, calls |-> r.calls, sets |-> r.sets,
     limits |-> r.limits, stored |-> r.stored]

\* reset_quota: ensure_entry finds the entry and the counters are zeroed; or
\* it finds none and reads the limits to build one
qt_reset_begin(c, t) ==
    /\ resetting[c] = Idle
    /\ qtOps < MaxQtOps
    /\ qtOps' = qtOps + 1
    /\ qtRet' = NoRet
    /\ IF qtCache[t] # NoMetrics
       THEN /\ qtCache' = [qtCache EXCEPT ![t] = reset_metrics(@, qtNow)]
            /\ note_reset(t)
            /\ resetting' = [resetting EXCEPT ![c] =
                               [pc |-> "save_day", tenant_id |-> t,
                                started |-> qtNow, calls |-> qtSum[t].calls,
                                sets |-> qtSum[t].sets,
                                limits |-> limits_of(qtCache[t]),
                                stored |-> entry_limits(t)]]
            /\ UNCHANGED qtDbLimits
       ELSE /\ resetting' = [resetting EXCEPT ![c] =
                               [pc |-> "insert", tenant_id |-> t,
                                started |-> qtNow, calls |-> qtSum[t].calls,
                                sets |-> qtSum[t].sets,
                                limits |-> entry_limits(t),
                                stored |-> entry_limits(t)]]
            /\ qtDbLimits' = [qtDbLimits EXCEPT ![t] = entry_limits(t)]
            /\ UNCHANGED <<qtCache, qtSum>>
    /\ UNCHANGED <<incrementing, qtNow, qtDbUsage, limiting>>

\* ensure_entry: cache.insert of the fresh metrics
qt_reset_insert(c) ==
    /\ resetting[c] # Idle /\ resetting[c].pc = "insert"
    /\ qtCache' = [qtCache EXCEPT ![resetting[c].tenant_id] =
                      fresh_metrics(resetting[c].limits, qtNow)]
    /\ resetting' = [resetting EXCEPT ![c] = [@ EXCEPT !.pc = "zero"]]
    /\ qtRet' = NoRet
    /\ UNCHANGED <<qtDbLimits, incrementing, qtNow, qtSum, qtDbUsage,
                   limiting, qtOps>>

\* reset_quota after ensure_entry: get_mut and the zeroing
qt_reset_zero(c) ==
    /\ resetting[c] # Idle /\ resetting[c].pc = "zero"
    /\ LET t == resetting[c].tenant_id
       IN /\ qtCache' = [qtCache EXCEPT ![t] =
                           IF @ = NoMetrics THEN @ ELSE reset_metrics(@, qtNow)]
          /\ note_reset(t)
    /\ resetting' = [resetting EXCEPT ![c] = [@ EXCEPT !.pc = "save_day"]]
    /\ qtRet' = NoRet
    /\ UNCHANGED <<qtDbLimits, incrementing, qtNow, qtDbUsage, limiting, qtOps>>

\* reset_quota: the two save_usage calls, each of which may fail
qt_reset_save(c, db_ok) ==
    /\ resetting[c] # Idle /\ resetting[c].pc \in {"save_day", "save_month"}
    /\ LET r == resetting[c]
           t == r.tenant_id
       IN IF ~db_ok
          THEN /\ resetting' = [resetting EXCEPT ![c] = Idle]
               /\ qtRet' = ResetRet(r, "Err")
               /\ UNCHANGED qtDbUsage
          ELSE IF r.pc = "save_day"
          THEN /\ qtDbUsage' = save_usage(qtDbUsage, t, current_day_period(qtNow),
                                         MESSAGE_QUOTA_TYPE, 0)
               /\ resetting' = [resetting EXCEPT ![c] = [@ EXCEPT !.pc = "save_month"]]
               /\ qtRet' = NoRet
          ELSE /\ qtDbUsage' = save_usage(qtDbUsage, t, current_month_period(qtNow),
                                         BANDWIDTH_QUOTA_TYPE, 0)
               /\ resetting' = [resetting EXCEPT ![c] = Idle]
               /\ qtRet' = ResetRet(r, "Ok")
    /\ UNCHANGED <<qtCache, qtDbLimits, incrementing, qtNow, qtSum, limiting, qtOps>>

\* the history of a set_limits call: one more of its writes, to the table or
\* to the entry, has taken effect
note_set_limits(t) ==
    qtSum' = [qtSum EXCEPT ![t] = [@ EXCEPT !.sets = @ + 1]]

SetLimitsRet(t, result) ==
    [op |-> "set_limits", tenant_id |-> t, result |-> result]

set_metrics_limits(entry, limits) ==
    [entry EXCEPT !.message_limit = limits.message_limit,
                  !.bandwidth_limit_bytes = limits.bandwidth_limit_bytes]

\* POST /api/quota/limits: the handler's validation, set_quota_limits, then
\* ensure_entry, which finds the entry (and the limits are updated) or not
qt_set_limits_begin(c, t, message_limit, bandwidth_limit_gb) ==
    /\ limiting[c] = Idle
    /\ qtOps < MaxQtOps
    /\ qtOps' = qtOps + 1
    /\ IF message_limit = 0 \/ bandwidth_limit_gb <= 0
       THEN /\ qtRet' = SetLimitsRet(t, "invalid_limit")
            /\ UNCHANGED <<qtCache, qtDbLimits, qtSum, limiting>>
       ELSE LET limits == [message_limit |-> message_limit,
                           bandwidth_limit_bytes |-> gb_to_bytes(bandwidth_limit_gb)]
            IN /\ qtDbLimits' = [qtDbLimits EXCEPT ![t] = limits]
               /\ note_set_limits(t)
               /\ IF qtCache[t] # NoMetrics
                  THEN /\ qtCache' = [qtCache EXCEPT ![t] = set_metrics_limits(@, limits)]
                       /\ qtRet' = SetLimitsRet(t, "Ok")
                       /\ UNCHANGED limiting
                  ELSE /\ limiting' = [limiting EXCEPT ![c] =
                                         [pc |-> "insert", tenant_id |-> t,
                                          limits |-> limits]]
                       /\ qtRet' = NoRet
                       /\ UNCHANGED qtCache
    /\ UNCHANGED <<incrementing, qtNow, qtDbUsage, resetting>>

\* ensure_entry: cache.insert of the fresh metrics
qt_set_limits_insert(c) ==
    /\ limiting[c] # Idle /\ limiting[c].pc = "insert"
    /\ qtCache' = [qtCache EXCEPT ![limiting[c].tenant_id] =
                      fresh_metrics(limiting[c].limits, qtNow)]
    /\ limiting' = [limiting EXCEPT ![c] = [@ EXCEPT !.pc = "update"]]
    /\ qtRet' = NoRet
    /\ UNCHANGED <<qtDbLimits, incrementing, qtNow, qtSum, qtDbUsage,
                   resetting, qtOps>>

\* set_limits after ensure_entry: get_mut and the new limits
qt_set_limits_update(c) ==
    /\ limiting[c] # Idle /\ limiting[c].pc = "update"
    /\ LET t == limiting[c].tenant_id
       IN /\ qtCache' = [qtCache EXCEPT ![t] =
                           IF @ = NoMetrics THEN @
                           ELSE set_metrics_limits(@, limiting[c].limits)]
          /\ qtRet' = SetLimitsRet(t, "Ok")
          /\ note_set_limits(t)
    /\ limiting' = [limiting EXCEPT ![c] = Idle]
    /\ UNCHANGED <<qtDbLimits, incrementing, qtNow, qtDbUsage, resetting, qtOps>>

QtInit ==
    /\ qtCache = [t \in QtTenants |-> NoMetrics]
    /\ qtDbLimits = [t \in QtTenants |-> NoLimits]
    /\ incrementing = [c \in QtCallers |-> Idle]
    /\ qtNow = 0
    /\ qtSum = [t \in QtTenants |-> [messages |-> 0, counted |-> 0, bytes |-> 0,
                                     calls |-> 0, sets |-> 0]]
    /\ qtRet = NoRet
    /\ qtDbUsage = [t \in QtTenants |->
                      [q \in {MESSAGE_QUOTA_TYPE, BANDWIDTH_QUOTA_TYPE} |->
                          [p \in UsagePeriods(q) |-> NoRow]]]
    /\ resetting = [c \in QtResetters |-> Idle]
    /\ limiting = [c \in QtSetters |-> Idle]
    /\ qtOps = 0

QtOnly == UNCHANGED <<bsVars, enfVars, httpVars, nsVars, mqttVars, cqVars, auVars, mgVars, stVars, whVars, fnVars, rdVars, cnVars>>

QtIncrementBegin ==
    /\ \E c \in QtCallers, t \in QtCalled, m \in QtMessages, b \in QtBytes :
          qt_increment_begin(c, t, m, b)
    /\ UNCHANGED <<qtDbUsage, resetting, limiting, qtOps>>
    /\ QtOnly
QtIncrementInsert ==
    /\ \E c \in QtCallers : qt_increment_insert(c)
    /\ UNCHANGED <<qtDbUsage, resetting, limiting, qtOps>>
    /\ QtOnly
QtIncrementUpdate ==
    /\ \E c \in QtCallers : qt_increment_update(c)
    /\ UNCHANGED <<qtDbUsage, resetting, limiting, qtOps>>
    /\ QtOnly
QtTick ==
    /\ qt_tick
    /\ UNCHANGED <<qtDbUsage, resetting, limiting, qtOps>>
    /\ QtOnly
QtCheck ==
    /\ \E t \in QtCalled : qt_check(t)
    /\ QtOnly
QtPersist ==
    /\ \E t \in QtTenants, outcome \in PersistOutcomes : qt_persist(t, outcome)
    /\ QtOnly
QtRestart ==
    /\ qt_restart
    /\ QtOnly
QtResetBegin ==
    /\ \E c \in QtResetters, t \in QtCalled : qt_reset_begin(c, t)
    /\ QtOnly
QtResetInsert ==
    /\ \E c \in QtResetters : qt_reset_insert(c)
    /\ QtOnly
QtResetZero ==
    /\ \E c \in QtResetters : qt_reset_zero(c)
    /\ QtOnly
QtResetSave ==
    /\ \E c \in QtResetters, db_ok \in BOOLEAN : qt_reset_save(c, db_ok)
    /\ QtOnly
QtSetLimitsBegin ==
    /\ \E c \in QtSetters, t \in QtCalled, l \in QtLimitInputs :
          qt_set_limits_begin(c, t, l.message_limit, l.bandwidth_limit_gb)
    /\ QtOnly
QtSetLimitsInsert ==
    /\ \E c \in QtSetters : qt_set_limits_insert(c)
    /\ QtOnly
QtSetLimitsUpdate ==
    /\ \E c \in QtSetters : qt_set_limits_update(c)
    /\ QtOnly

\* The tracker some time after its start.  One more tenant is already tracked:
\* it has had one increment(t, 2, 1), not yet persisted.  A tenant the calls
\* name is either unknown or has had its limits set by set_limits(t, 2, 1),
\* which left it an entry with these limits and no usage.
QtOthers == QtTenants \ QtCalled
QtDefaultLimits ==
    [message_limit |-> default_message_limit,
     bandwidth_limit_bytes |-> default_bandwidth_limit]
QtSetLimits ==
    [message_limit |-> 2, bandwidth_limit_bytes |-> gb_to_bytes(1)]
QtBusyInit ==
    /\ \E known \in SUBSET QtCalled :
          /\ qtCache = [t \in QtTenants |->
                          IF t \in QtOthers
                          THEN apply_increment(fresh_metrics(QtDefaultLimits, 0), 2, 1, 0)
                          ELSE IF t \in known THEN fresh_metrics(QtSetLimits, 0)
                          ELSE NoMetrics]
          /\ qtDbLimits = [t \in QtTenants |->
                             IF t \in QtOthers THEN QtDefaultLimits
                             ELSE IF t \in known THEN QtSetLimits
                             ELSE NoLimits]
          /\ qtSum = [t \in QtTenants |->
                        IF t \in QtOthers
                        THEN [messages |-> 2, counted |-> 2, bytes |-> 1,
                              calls |-> 1, sets |-> 0]
                        ELSE [messages |-> 0, counted |-> 0, bytes |-> 0, calls |-> 0,
                              sets |-> IF t \in known THEN 1 ELSE 0]]
    /\ incrementing = [c \in QtCallers |-> Idle]
    /\ qtNow = 0
    /\ qtRet = NoRet
    /\ qtDbUsage = [t \in QtTenants |->
                      [q \in {MESSAGE_QUOTA_TYPE, BANDWIDTH_QUOTA_TYPE} |->
                          [p \in UsagePeriods(q) |-> NoRow]]]
    /\ resetting = [c \in QtResetters |-> Idle]
    /\ limiting = [c \in QtSetters |-> Idle]
    /\ qtOps = 0

\* increments of one caller, each of 2 messages and 1 byte
QtSoloIncrementBegin ==
    /\ \E t \in QtCalled : qt_increment_begin("i1", t, 2, 1)
    /\ UNCHANGED <<qtDbUsage, resetting, limiting, qtOps>>
    /\ QtOnly
QtSoloIncrementInsert ==
    /\ qt_increment_insert("i1")
    /\ UNCHANGED <<qtDbUsage, resetting, limiting, qtOps>>
    /\ QtOnly
QtSoloIncrementUpdate ==
    /\ qt_increment_update("i1")
    /\ UNCHANGED <<qtDbUsage, resetting, limiting, qtOps>>
    /\ QtOnly

(***************************************************************************)
(*                    THE TWO check_quota FUNCTIONS                        *)
(* The MQTT adapter's own tracker and the quota tracker service each have  *)
(* a check_quota; both are applied to counters and limits drawn from the   *)
(* values their configuration lets through: a message limit of at least 1  *)
(* and a bandwidth limit in GB above 0, which the cast to u64 may truncate *)
(* to 0 bytes.                                                             *)
(***************************************************************************)
MaxCounter == 3
CqCounters == 0..MaxCounter
CqMessageLimits == 1..MaxCounter
\* bandwidth_limit_gb, in GbUnits-ths of the byte unit
CqBandwidthLimitsGb == 1..(GbUnits * MaxCounter)

\* QuotaTracker::new: the limits the adapter's tracker is built with
QuotaTracker_new(message_limit, bandwidth_limit_gb) ==
    [message_limit |-> message_limit,
     bandwidth_limit_bytes |-> gb_to_bytes(bandwidth_limit_gb)]

\* the adapter's metrics of a tenant: absent before its first publish, which
\* counts one message
CqBridgeMetrics ==
    {NoMetrics} \cup [message_count : 1..MaxCounter, bytes_sent : CqCounters,
                      last_reset : {0}]

\* the service's metrics of a tenant: absent while it is not tracked
CqTrackerMetrics ==
    {NoMetrics} \cup
    {[message_count |-> mc, bytes_sent |-> bs, message_limit |-> ml,
      bandwidth_limit_bytes |-> gb_to_bytes(gb), last_reset |-> 0, period |-> 0] :
        mc \in CqCounters, bs \in CqCounters, ml \in CqMessageLimits,
        gb \in CqBandwidthLimitsGb}

CheckRet(service, metrics, limits, check) ==
    [op |-> "check_quota", service |-> service, metrics |-> metrics,
     message_limit |-> limits.message_limit,
     bandwidth_limit_bytes |-> limits.bandwidth_limit_bytes,
     result |-> check.result]

bridge_check_quota(metrics, message_limit, bandwidth_limit_gb) ==
    /\ cqRet = NoRet
    /\ LET tracker == QuotaTracker_new(message_limit, bandwidth_limit_gb)
       IN cqRet' = CheckRet("bridge-mqtt", metrics, tracker,
                            QuotaTracker_check_quota(metrics, tracker.message_limit,
                                                     tracker.bandwidth_limit_bytes))

tracker_check_quota(metrics) ==
    /\ cqRet = NoRet
    /\ cqRet' = CheckRet("quota-tracker", metrics,
                         IF metrics = NoMetrics
                         THEN [message_limit |-> 0, bandwidth_limit_bytes |-> 0]
                         ELSE limits_of(metrics),
                         QuotaManager_check_quota(metrics))

CqInit == cqRet = NoRet

CqOnly == UNCHANGED <<bsVars, enfVars, httpVars, nsVars, mqttVars, qtVars, auVars, mgVars, stVars, whVars, fnVars, rdVars, cnVars>>

BridgeCheckQuota ==
    /\ \E metrics \in CqBridgeMetrics, ml \in CqMessageLimits,
          gb \in CqBandwidthLimitsGb : bridge_check_quota(metrics, ml, gb)
    /\ CqOnly
TrackerCheckQuota ==
    /\ \E metrics \in CqTrackerMetrics : tracker_check_quota(metrics)
    /\ CqOnly

(***************************************************************************)
(*                          AUDIT LOG UPLOAD                               *)
(* services/audit-store: the routes that write audit logs and mark them    *)
(* uploaded, the status of the registered tenants, and the upload task of  *)
(* upload/queue.rs, run with deferred upload enabled and an upload         *)
(* endpoint configured. One cycle of the task is split where requests of   *)
(* other threads can run in between: before each database call and at      *)
(* each POST.                                                              *)
(***************************************************************************)
AuTenants == {"t1", "t2"}
\* a tenant id that is in no row of table tenants
AuUnregistered == "t0"
\* the rows of table tenants in list_tenants' order, created_at descending
AuTenantOrder == <<"t2", "t1">>
MaxAuLogs == 2
AuLogIds == 1..MaxAuLogs
\* the timestamps the requests carry, an earlier and a later one
AuTimestamps == {1, 2}
\* AuditStoreConfig.upload_batch_size, which validate() keeps above zero
upload_batch_size == 1
MAX_RETRIES == 3
\* what a POST to the endpoint comes back with
Replies == {"2xx", "4xx", "5xx", "other", "transport_error"}

\* TenantRegistry::get_tenant
get_tenant(tenant_id) ==
    IF tenant_id \in AuTenants
    THEN [tenant_id |-> tenant_id, status |-> auStatus[tenant_id]]
    ELSE NoRow

\* a listing that stops after its first row
list_tenants_first(status) ==
    SubSeq(SelectSeq(AuTenantOrder, LAMBDA t : auStatus[t] = status), 1, 1)

\* TenantRegistry::list_tenants(Some(status))
list_tenants(status) ==
    SelectSeq(AuTenantOrder, LAMBDA t : auStatus[t] = status)

\* Uuid::new_v4: an id no row has
new_v4(logs) == CHOOSE id \in AuLogIds :
    /\ logs[id] = NoRow
    /\ \A other \in AuLogIds : logs[other] = NoRow => id <= other

\* AuditDatabase::write_audit_log: INSERT INTO audit_logs of the tenant
insert_audit_log(logs, entry) == [logs EXCEPT ![entry.log_id] =
    [tenant_id |-> entry.tenant_id, timestamp |-> entry.timestamp,
     uploaded |-> entry.uploaded]]

\* the rows WHERE tenant_id = ?1 AND uploaded = 0
Unuploaded(logs, tenant_id) ==
    {id \in AuLogIds : /\ logs[id] # NoRow
                       /\ logs[id].tenant_id = tenant_id
                       /\ ~logs[id].uploaded}

\* AuditDatabase::get_unuploaded_logs: the results ORDER BY timestamp ASC
\* LIMIT ?2 can give, rows of equal timestamp coming in either order
get_unuploaded_logs(logs, tenant_id, limit) ==
    LET pending == Unuploaded(logs, tenant_id)
        n == IF Cardinality(pending) < limit THEN Cardinality(pending) ELSE limit
    IN {batch \in SUBSET pending :
            /\ Cardinality(batch) = n
            /\ \A b \in batch, u \in pending \ batch :
                   logs[b].timestamp <= logs[u].timestamp}

\* an UPDATE that matches on the tenant instead of on the log ids
mark_logs_uploaded_of_tenant(logs, tenant_id, log_ids) ==
    [id \in AuLogIds |->
        IF logs[id] # NoRow /\ logs[id].tenant_id = tenant_id
        THEN [logs[id] EXCEPT !.uploaded = TRUE]
        ELSE logs[id]]

\* AuditDatabase::mark_logs_uploaded: UPDATE audit_logs SET uploaded = 1
\* WHERE log_id = ?1, for each id, in the database of tenant_id
mark_logs_uploaded(logs, tenant_id, log_ids) ==
    [id \in AuLogIds |->
        IF id \in log_ids /\ logs[id] # NoRow /\ logs[id].tenant_id = tenant_id
        THEN [logs[id] EXCEPT !.uploaded = TRUE]
        ELSE logs[id]]

\* POST /api/audit/logs
write_audit_log(tenant_id, timestamp) ==
    /\ \E id \in AuLogIds : auLogs[id] = NoRow
    /\ IF get_tenant(tenant_id) = NoRow
       THEN UNCHANGED auLogs   \* 404 tenant_not_found
       ELSE LET entry == [log_id |-> new_v4(auLogs), tenant_id |-> tenant_id,
                          timestamp |-> timestamp, uploaded |-> FALSE]
            IN auLogs' = insert_audit_log(auLogs, entry)
    /\ UNCHANGED <<auStatus, auTask, auEndpoint, auAcked, auFailed>>

\* POST /api/audit/logs/mark-uploaded
mark_uploaded(tenant_id, log_ids) ==
    /\ IF log_ids = {}
       THEN UNCHANGED auLogs   \* 400 invalid_request
       ELSE auLogs' = mark_logs_uploaded(auLogs, tenant_id, log_ids)
    /\ UNCHANGED <<auStatus, auTask, auEndpoint, auAcked, auFailed>>

\* the endpoint starts to accept every upload
endpoint_recovers ==
    /\ auEndpoint = "unreliable"
    /\ auEndpoint' = "accepting"
    /\ UNCHANGED <<auStatus, auLogs, auTask, auAcked, auFailed>>

\* the task between two cycles, at ticker.tick().await
AuWaiting == [pc |-> "tick", pending |-> <<>>, tenant |-> Null, batch |-> {},
              attempt |-> 0, posts |-> 0, last |-> "none"]

\* UploadQueue::start, one tick: process_uploads begins and lists the
\* active tenants
process_uploads_begin ==
    /\ auTask.pc = "tick"
    /\ auTask' = [AuWaiting EXCEPT !.pc = "fetch",
                                   !.pending = list_tenants("active")]
    /\ UNCHANGED <<auStatus, auLogs, auEndpoint, auAcked, auFailed>>

\* process_uploads, head of the loop over the tenants: the cycle ends when
\* none is left or when the read fails; a tenant without pending logs is
\* skipped; otherwise upload_batch starts on what was read
process_uploads_fetch(db_ok) ==
    /\ auTask.pc = "fetch"
    /\ UNCHANGED <<auStatus, auLogs, auEndpoint, auAcked, auFailed>>
    /\ IF auTask.pending = <<>>
       THEN /\ auTask' = AuWaiting
       ELSE IF ~db_ok
       THEN /\ auTask' = AuWaiting
       ELSE /\ \E logs \in get_unuploaded_logs(auLogs, Head(auTask.pending),
                                               upload_batch_size) :
                  auTask' = IF logs = {}
                            THEN [AuWaiting EXCEPT !.pc = "fetch",
                                      !.pending = Tail(auTask.pending)]
                            ELSE [AuWaiting EXCEPT !.pc = "post",
                                      !.pending = auTask.pending,
                                      !.tenant = Head(auTask.pending),
                                      !.batch = logs]

\* upload_batch, one pass of its loop: the POST and what it does with the
\* reply. A failed batch is left for the next tenant of the cycle.
upload_batch_post(reply) ==
    /\ auTask.pc = "post"
    /\ auEndpoint = "accepting" => reply = "2xx"
    /\ UNCHANGED <<auStatus, auLogs, auEndpoint>>
    /\ IF reply = "2xx"
       THEN /\ auTask' = [auTask EXCEPT !.pc = "mark", !.posts = @ + 1,
                                        !.last = reply]
            /\ auAcked' = auAcked \cup auTask.batch
            /\ UNCHANGED auFailed
       ELSE IF reply = "5xx" /\ auTask.attempt < MAX_RETRIES
       THEN /\ auTask' = [auTask EXCEPT !.attempt = @ + 1, !.posts = @ + 1,
                                        !.last = reply]
            /\ UNCHANGED <<auAcked, auFailed>>
       ELSE /\ auTask' = [AuWaiting EXCEPT !.pc = "fetch",
                                           !.pending = Tail(auTask.pending)]
            /\ auFailed' = auFailed \cup auTask.batch
            /\ UNCHANGED auAcked

\* process_uploads after upload_batch returned Ok: the batch's rows are
\* marked; a failure to mark ends the cycle
process_uploads_mark(db_ok) ==
    /\ auTask.pc = "mark"
    /\ UNCHANGED <<auStatus, auEndpoint, auAcked, auFailed>>
    /\ IF db_ok
       THEN /\ auLogs' = mark_logs_uploaded(auLogs, auTask.tenant, auTask.batch)
            /\ auTask' = [AuWaiting EXCEPT !.pc = "fetch",
                                           !.pending = Tail(auTask.pending)]
       ELSE /\ auTask' = AuWaiting
            /\ UNCHANGED auLogs

\* the registry holds two active tenants, no log is stored, the task waits
\* for its first tick
AuInit ==
    /\ auStatus = [t \in AuTenants |-> "active"]
    /\ auLogs = [id \in AuLogIds |-> NoRow]
    /\ auTask = AuWaiting
    /\ auEndpoint = "unreliable"
    /\ auAcked = {}
    /\ auFailed = {}

\* as AuInit, the second tenant active or suspended
AuLiveInit ==
    /\ auStatus \in {[t \in AuTenants |-> IF t = "t1" THEN "active" ELSE status] :
                        status \in {"active", "suspended"}}
    /\ auLogs = [id \in AuLogIds |-> NoRow]
    /\ auTask = AuWaiting
    /\ auEndpoint = "unreliable"
    /\ auAcked = {}
    /\ auFailed = {}

AuOnly == UNCHANGED <<bsVars, enfVars, httpVars, nsVars, mqttVars, qtVars, cqVars, mgVars, stVars, whVars, fnVars, rdVars, cnVars>>

WriteAuditLog ==
    /\ \E t \in AuTenants \cup {AuUnregistered}, ts \in AuTimestamps :
          write_audit_log(t, ts)
    /\ AuOnly
MarkUploaded ==
    /\ \E t \in AuTenants, ids \in {{}} \cup {{id} : id \in AuLogIds} :
          mark_uploaded(t, ids)
    /\ AuOnly
EndpointRecovers == endpoint_recovers /\ AuOnly
ProcessUploadsBegin == process_uploads_begin /\ AuOnly
ProcessUploadsFetch == (\E db_ok \in BOOLEAN : process_uploads_fetch(db_ok)) /\ AuOnly
UploadBatchPost == (\E reply \in Replies : upload_batch_post(reply)) /\ AuOnly
ProcessUploadsMark == (\E db_ok \in BOOLEAN : process_uploads_mark(db_ok)) /\ AuOnly
\* the task's database calls when the database answers
ProcessUploadsFetchOk == process_uploads_fetch(TRUE) /\ AuOnly
ProcessUploadsMarkOk == process_uploads_mark(TRUE) /\ AuOnly

(***************************************************************************)
(*                          MANAGEMENT PATH                                *)
(* apps/tauri-ui, commands/policy.rs: activate_policy_bundle activates the *)
(* bundle in the audit store, writes its rule source into the tenant's     *)
(* directory under the enforcer's bundles_dir and asks the enforcer to     *)
(* reload the tenant. The enforcer builds the tenant's engine from every   *)
(* .rego file it finds in that directory. A rule source is named by the    *)
(* version of the bundle it belongs to: a bundle's rego_code and version   *)
(* never change once stored.                                               *)
(***************************************************************************)
\* PolicyBundleLoader::load_bundle with collect_rego_files: the directory
\* must exist; every file with extension rego below it is a policy
mg_load_bundle(disk, tenant_id) ==
    IF disk[tenant_id] = {}
    THEN [result |-> "BundleLoadError", policies |-> {}]
    ELSE [result |-> "Ok", policies |-> disk[tenant_id]]

\* PolicyManager::reload_tenant: load_bundle, then install_tenant_engine, which
\* builds the engine from all the policies (add_policy of each) and inserts
\* it when the build and verify_entrypoint succeed; whether they do depends
\* on the rule texts (build_ok)
mg_reload_tenant(engs, disk, tenant_id, build_ok) ==
    LET bundle == mg_load_bundle(disk, tenant_id)
    IN IF bundle.result # "Ok" THEN [result |-> bundle.result, engines |-> engs]
       ELSE IF ~build_ok THEN [result |-> "InvalidPolicy", engines |-> engs]
       ELSE [result |-> "Ok",
             engines |-> [engs EXCEPT ![tenant_id] =
                            [tenant_id |-> tenant_id,
                             policies |-> bundle.policies]]]

\* write_policy_bundle_file: create_dir_all and write policy_v<version>.rego
write_policy_bundle_file(disk, tenant_id, version) ==
    [disk EXCEPT ![tenant_id] = @ \cup {version}]

MgRet(b, t, result) ==
    [op |-> "activate_policy_bundle", bundle_id |-> b, tenant_id |-> t,
     result |-> result]

\* activate_policy_bundle_impl up to the file write: invoke_activate_bundle
\* (POST /api/bundles/:id/activate, the store's activate_bundle) and
\* fetch_policy_bundle, which reads the bundle's tenant, version and source
mg_activate_begin(b) ==
    /\ mgCmd = Idle
    /\ IF get_bundle(rows, b) = NoRow
       THEN /\ rows' = rows
            /\ mgCmd' = mgCmd
            /\ mgRet' = MgRet(b, Null, "Err")
       ELSE /\ rows' = activate_tx(rows, b, rows[b].tenant_id)
            /\ mgCmd' = [pc |-> "write", bundle_id |-> b,
                         tenant_id |-> rows[b].tenant_id,
                         version |-> rows[b].version]
            /\ mgRet' = NoRet
    /\ UNCHANGED <<activating, bsRet, mgDisk, mgEngines>>

\* activate_policy_bundle_impl: write_policy_bundle_file
mg_activate_write ==
    /\ mgCmd # Idle /\ mgCmd.pc = "write"
    /\ mgDisk' = write_policy_bundle_file(mgDisk, mgCmd.tenant_id, mgCmd.version)
    /\ mgCmd' = [mgCmd EXCEPT !.pc = "reload"]
    /\ UNCHANGED <<bsVars, mgEngines, mgRet>>

\* activate_policy_bundle_impl: reload_enforcer (POST /v1/tenants/:id/reload)
\* and the command's result
mg_activate_reload(build_ok) ==
    /\ mgCmd # Idle /\ mgCmd.pc = "reload"
    /\ LET done == mg_reload_tenant(mgEngines, mgDisk, mgCmd.tenant_id, build_ok)
       IN /\ mgEngines' = done.engines
          /\ mgRet' = MgRet(mgCmd.bundle_id, mgCmd.tenant_id,
                            IF done.result = "Ok" THEN "Ok" ELSE "Err")
    /\ mgCmd' = Idle
    /\ UNCHANGED <<bsVars, mgDisk>>

\* the hot-reload watcher reloads a tenant whose directory changed
mg_watcher_reload(tenant_id, build_ok) ==
    /\ mgDisk[tenant_id] # {}
    /\ mgEngines' = mg_reload_tenant(mgEngines, mgDisk, tenant_id, build_ok).engines
    /\ UNCHANGED <<bsVars, mgDisk, mgCmd, mgRet>>

\* no tenant has a directory or an engine, no command runs
MgInit ==
    /\ mgDisk = [t \in Tenants |-> {}]
    /\ mgEngines = [t \in Tenants |-> NoEngine]
    /\ mgCmd = Idle
    /\ mgRet = NoRet

\* the table as the management path finds it: two versions of tenant t1 and
\* one of tenant t2 have been deployed as drafts
BsDeployedInit ==
    /\ rows = [b \in BundleIds |->
                 CASE b = 1 -> [tenant_id |-> "t1", version |-> 1,
                                status |-> "draft", activated_at |-> Null]
                   [] b = 2 -> [tenant_id |-> "t1", version |-> 2,
                                status |-> "draft", activated_at |-> Null]
                   [] b = 3 -> [tenant_id |-> "t2", version |-> 1,
                                status |-> "draft", activated_at |-> Null]
                   [] OTHER -> NoRow]
    /\ activating = [c \in Callers |-> Idle]
    /\ bsRet = NoRet

MgOnly == UNCHANGED <<enfVars, httpVars, nsVars, mqttVars, qtVars, cqVars, auVars, stVars, whVars, fnVars, rdVars, cnVars>>

MgActivateBegin == (\E b \in BundleIds : mg_activate_begin(b)) /\ MgOnly
MgActivateWrite == mg_activate_write /\ MgOnly
MgActivateReload == (\E build_ok \in BOOLEAN : mg_activate_reload(build_ok)) /\ MgOnly
MgWatcherReload ==
    /\ \E t \in Tenants, build_ok \in BOOLEAN : mg_watcher_reload(t, build_ok)
    /\ MgOnly

(***************************************************************************)
(*                           DECISION STREAM                               *)
(* services/enforcer: query_policy sends every decision event on a tokio   *)
(* broadcast channel; each websocket connection (handle_decision_stream)   *)
(* owns a receiver of that channel, a bounded queue of outgoing messages   *)
(* and a filter. Three tasks serve a connection: broadcast_task moves      *)
(* events from the channel to the queue, sink_task writes queued messages  *)
(* to the socket, receive_task handles the client's messages.              *)
(***************************************************************************)
Connections == {"s1", "s2"}
Closed == [open |-> FALSE]

\* capacity of the broadcast channel (256 in main) and of a connection's
\* queue of outgoing messages (128), and the number of events published
EventBacklog == 2
OutCapacity  == 1
MaxEvents    == 4

DecisionEvents == [tenant_id : Tenants, allow : BOOLEAN]
TenantFilters == {Null} \cup Tenants
DecisionFilters == {Null, "allow", "deny"}

\* position of the oldest event the channel still holds
Oldest(ring) == ring.tail - Len(ring.buf)

\* a bounded channel whose sender waits for the slowest open receiver
broadcast_send_bounded(ring, subs, event) ==
    IF \E s \in Connections :
          subs[s].open /\ ring.tail - subs[s].next >= EventBacklog
    THEN [result |-> "Pending", ring |-> ring]
    ELSE [result |-> "Ok",
          ring |-> [tail |-> ring.tail + 1, buf |-> Append(ring.buf, event)]]

\* broadcast::Sender::send: the event takes the next position, the oldest
\* retained event is overwritten when the channel is full; no receiver is
\* waited for. The receiver main keeps for the life of the process makes the
\* receiver count positive, so send returns Ok.
broadcast_send(ring, subs, event) ==
    [result |-> "Ok",
     ring |-> [tail |-> ring.tail + 1,
               buf |-> IF Len(ring.buf) < EventBacklog
                       THEN Append(ring.buf, event)
                       ELSE Append(Tail(ring.buf), event)]]

\* query_policy, after the evaluation: build the event, send it ignoring the
\* result of send, answer 200
st_publish(event) ==
    /\ stRing.tail < MaxEvents
    /\ LET sent == broadcast_send(stRing, stSub, event)
       IN /\ sent.result # "Pending"
          /\ stRing' = sent.ring
    /\ UNCHANGED stSub

should_send_event(event, tenant_filter) ==
    IF tenant_filter # Null THEN event.tenant_id = tenant_filter ELSE TRUE

DecisionMessage(event) == [type |-> "decision", data |-> event]

\* ws_decision_stream and the start of handle_decision_stream: subscribe to the
\* channel, filter from the query string, queue the "connected" message
st_connect(s, tenant_filter) ==
    /\ ~stSub[s].open
    /\ stSub' = [stSub EXCEPT ![s] =
                   [open |-> TRUE, next |-> stRing.tail, filter |-> tenant_filter,
                    asked |-> [tenant_id |-> tenant_filter, decision |-> Null],
                    hand |-> NoEvent, lagged |-> 0,
                    out |-> <<[type |-> "connected"]>>]]
    /\ UNCHANGED stRing

\* broadcast_task: subscriber.recv() returns the next event or Lagged(skipped),
\* which is logged; the filter is read and applied to a received event
st_recv(s) ==
    /\ stSub[s].open /\ stSub[s].hand = NoEvent
    /\ stSub[s].next < stRing.tail
    /\ IF stSub[s].next < Oldest(stRing)
       THEN stSub' = [stSub EXCEPT ![s].next = Oldest(stRing),
                                   ![s].lagged = Oldest(stRing) - stSub[s].next]
       ELSE LET event == stRing.buf[stSub[s].next - Oldest(stRing) + 1]
            IN stSub' = [stSub EXCEPT
                           ![s].next = @ + 1,
                           ![s].lagged = 0,
                           ![s].hand = IF should_send_event(event, stSub[s].filter)
                                       THEN event ELSE NoEvent]
    /\ UNCHANGED stRing

\* broadcast_task: out_tx.send(decision message) completes when the queue has
\* room
st_forward(s) ==
    /\ stSub[s].open /\ stSub[s].hand # NoEvent
    /\ Len(stSub[s].out) < OutCapacity
    /\ stSub' = [stSub EXCEPT ![s].out = Append(@, DecisionMessage(stSub[s].hand)),
                              ![s].hand = NoEvent]
    /\ UNCHANGED stRing

\* sink_task: write the next queued message to the socket; a failed write ends
\* the task and with it the connection
st_sink(s, ok) ==
    /\ stSub[s].open /\ stSub[s].out # <<>>
    /\ stSub' = [stSub EXCEPT ![s] =
                   IF ok THEN [@ EXCEPT !.out = Tail(@)] ELSE Closed]
    /\ UNCHANGED stRing

\* receive_task, a text message of type "filter" with a tenant_id key: the
\* trimmed tenant (none when empty or not a string) becomes the filter; no
\* other key of the message is read
st_filter(s, tenant_id, decision) ==
    /\ stSub[s].open
    /\ stSub' = [stSub EXCEPT ![s].filter = tenant_id,
                              ![s].asked = [tenant_id |-> tenant_id,
                                            decision |-> decision]]
    /\ UNCHANGED stRing

\* receive_task, a ping: the pong is queued when the queue has room
st_ping(s) ==
    /\ stSub[s].open
    /\ Len(stSub[s].out) < OutCapacity
    /\ stSub' = [stSub EXCEPT ![s].out = Append(@, [type |-> "pong"])]
    /\ UNCHANGED stRing

\* receive_task, a close frame or the end of the client's stream: the select
\* returns and the three tasks are aborted
st_close(s) ==
    /\ stSub[s].open
    /\ stSub' = [stSub EXCEPT ![s] = Closed]
    /\ UNCHANGED stRing

\* an empty channel and no connection
StInit ==
    /\ stRing = [tail |-> 0, buf |-> <<>>]
    /\ stSub = [s \in Connections |-> Closed]

StOnly == UNCHANGED <<bsVars, enfVars, httpVars, nsVars, mqttVars, qtVars, cqVars, auVars, mgVars, whVars, fnVars, rdVars, cnVars>>

StRecv == (\E s \in Connections : st_recv(s)) /\ StOnly
StForward == (\E s \in Connections : st_forward(s)) /\ StOnly
StSink == (\E s \in Connections, ok \in BOOLEAN : st_sink(s, ok)) /\ StOnly
StClose == (\E s \in Connections : st_close(s)) /\ StOnly

\* the stream while the channel does not wrap, with one connection (s1) that
\* sets and changes filters and pings beside one that takes every event
StPublishNoLag ==
    /\ stRing.tail < EventBacklog
    /\ \E event \in DecisionEvents : st_publish(event)
    /\ StOnly
StConnectOne ==
    /\ (\E f \in TenantFilters : st_connect("s1", f)) \/ st_connect("s2", Null)
    /\ StOnly
StFilterOne ==
    /\ \E f \in TenantFilters, d \in DecisionFilters : st_filter("s1", f, d)
    /\ StOnly
StPingOne == st_ping("s1") /\ StOnly

\* the stream with allowed decisions of either tenant and connections that take
\* every event
StPublishAllowed ==
    (\E t \in Tenants : st_publish([tenant_id |-> t, allow |-> TRUE])) /\ StOnly
StConnectUnfiltered == (\E s \in Connections : st_connect(s, Null)) /\ StOnly

(***************************************************************************)
(*                         HOT-RELOAD WATCHER                              *)
(* services/enforcer main.rs, spawn_hot_reload_watcher: the notify         *)
(* callback sends every filesystem event on an unbounded channel; one task *)
(* receives them in order and reloads the tenant an event names.           *)
(***************************************************************************)
MaxFsEvents == 2

\* names found directly under the bundles root: tenant directories and a
\* plain file
FsNames == Tenants \cup {"stray"}
\* a path as its components relative to the root; <<>> is the root itself
FsPaths == {<<>>, <<"t1", "policy.rego">>, <<"t2", "policy.rego">>, <<"stray">>}
\* the paths of one event: one path, or the two paths of a rename
EventPaths ==
    {<<p>> : p \in FsPaths} \cup {<< <<"t1", "policy.rego">>, <<"t2", "policy.rego">> >>}
EventKinds == {"create", "modify", "remove", "access"}

is_relevant_event_no_remove(kind) == kind \in {"create", "modify", "any"}

is_relevant_event(kind) == kind \in {"create", "modify", "remove", "any"}

\* resolve_tenant_id: the first component of the first path that has one
resolve_tenant_id(paths) ==
    LET named == {i \in DOMAIN paths : paths[i] # <<>>}
    IN IF named = {} THEN Null
       ELSE LET first == CHOOSE i \in named : \A j \in named : i <= j
            IN paths[first][1]

\* the notify callback: event_tx.send(event); at is the instant of the event,
\* that of the event before it or the next one
wh_notify(kind, paths, at) ==
    /\ Len(whEvents) < MaxFsEvents
    /\ at \in IF whEvents = <<>> THEN {0}
              ELSE {whEvents[Len(whEvents)].at, whEvents[Len(whEvents)].at + 1}
    /\ whEvents' = Append(whEvents, [kind |-> kind, paths |-> paths, at |-> at])
    /\ UNCHANGED <<whDone, whLog, enfVars>>

\* one turn of the dispatcher's loop: receive the next event, skip it unless it
\* is relevant and names a tenant, reload_tenant and log the outcome; dir is
\* what the tenant's directory holds at that moment (nothing to load when the
\* name is not a tenant's directory)
wh_dispatch(dir) ==
    /\ whDone < Len(whEvents)
    /\ whDone' = whDone + 1
    /\ LET event == whEvents[whDone + 1]
           tenant_id == resolve_tenant_id(event.paths)
       IN IF ~is_relevant_event(event.kind) \/ tenant_id = Null
          THEN UNCHANGED <<whLog, engines>>
          ELSE IF tenant_id \notin Tenants \/ load_bundle(dir).result # "Ok"
          THEN /\ whLog' = Append(whLog, [event |-> whDone + 1, tenant_id |-> tenant_id,
                                          result |-> "BundleLoadError"])
               /\ engines' = engines
          ELSE LET done == install_tenant_engine(engines, tenant_id,
                                                 load_bundle(dir).bundle)
               IN /\ whLog' = Append(whLog, [event |-> whDone + 1,
                                             tenant_id |-> tenant_id,
                                             result |-> done.result])
                  /\ engines' = done.engines
    /\ UNCHANGED <<whEvents, reloading, querying, enfRet>>

\* the watcher has just started: no event yet
WhInit ==
    /\ whEvents = <<>>
    /\ whDone = 0
    /\ whLog = <<>>

WhOnly == UNCHANGED <<bsVars, httpVars, nsVars, mqttVars, qtVars, cqVars, auVars, mgVars, stVars, fnVars, rdVars, cnVars>>

WhNotify ==
    /\ \E kind \in EventKinds, paths \in EventPaths, at \in 0..MaxFsEvents :
          wh_notify(kind, paths, at)
    /\ WhOnly
WhDispatch == (\E dir \in BundleKinds : wh_dispatch(dir)) /\ WhOnly

\* the watcher with all events at one instant and tenant directories that are
\* missing or hold a bundle that loads
WhNotifyAtOnce ==
    /\ \E kind \in EventKinds, paths \in EventPaths : wh_notify(kind, paths, 0)
    /\ WhOnly
WhDispatchPlain == (\E dir \in {"missing", "allow_all"} : wh_dispatch(dir)) /\ WhOnly

(***************************************************************************)
(*                           JSON DOCUMENTS                                *)
(* A serde_json::Value is a record [t, v, m]: a scalar carries its text in *)
(* v, an object its members [k, v] in m in the order of the document, an   *)
(* array its items in m with an empty key.                                 *)
(***************************************************************************)
JNum(text) == [t |-> "num", v |-> text, m |-> <<>>]
JObj(members) == [t |-> "obj", v |-> "", m |-> members]
JArr(items) == [t |-> "arr", v |-> "", m |-> [i \in DOMAIN items |-> [k |-> "", v |-> items[i]]]]

JsonKeys == {"a", "b"}
\* the lexicographic order of the keys
KeyRank(k) == IF k = "a" THEN 1 ELSE 2

ObjectsOver(V) ==
    {JObj(<<>>)}
    \cup {JObj(<<[k |-> k, v |-> x]>>) : k \in JsonKeys, x \in V}
    \cup {JObj(<<[k |-> ks[1], v |-> x], [k |-> ks[2], v |-> y]>>) :
            ks \in {p \in JsonKeys \X JsonKeys : p[1] # p[2]}, x \in V, y \in V}
ArraysOver(V) == {JArr(<<x>>) : x \in V}
Json0 == {JNum("1")}
Json1 == Json0 \cup ObjectsOver(Json0) \cup ArraysOver(Json0)
Json2 == Json0 \cup ObjectsOver(Json1) \cup ArraysOver(Json1)

\* BTreeMap's iteration order: the members by increasing key
RECURSIVE MembersByKey(_)
MembersByKey(members) ==
    IF members = {} THEN <<>>
    ELSE LET least == CHOOSE x \in members :
                         \A y \in members : KeyRank(x.k) <= KeyRank(y.k)
         IN <<least>> \o MembersByKey(members \ {least})

\* a sort of the outermost object only
sort_json_keys_shallow(value) ==
    IF value.t = "obj"
    THEN JObj(MembersByKey({value.m[i] : i \in DOMAIN value.m}))
    ELSE value

\* sort_json_keys: objects are rebuilt from a BTreeMap of their members, each
\* value sorted in turn; the items of an array are sorted in place
RECURSIVE sort_json_keys(_)
sort_json_keys(value) ==
    CASE value.t = "obj" ->
           JObj(MembersByKey({[k |-> value.m[i].k, v |-> sort_json_keys(value.m[i].v)] :
                                 i \in DOMAIN value.m}))
      [] value.t = "arr" ->
           [value EXCEPT !.m = [i \in DOMAIN value.m |->
                                   [k |-> "", v |-> sort_json_keys(value.m[i].v)]]]
      [] OTHER -> value

\* serde_json::to_string: the text of a value as a sequence of tokens, members
\* in the order the value holds them
RECURSIVE to_string(_)
RECURSIVE to_string_members(_, _)
to_string_members(value, i) ==
    IF i > Len(value.m) THEN <<>>
    ELSE (IF i > 1 THEN <<",">> ELSE <<>>)
         \o (IF value.t = "obj" THEN <<value.m[i].k, ":">> ELSE <<>>)
         \o to_string(value.m[i].v)
         \o to_string_members(value, i + 1)
to_string(value) ==
    CASE value.t = "obj" -> <<"{">> \o to_string_members(value, 1) \o <<"}">>
      [] value.t = "arr" -> <<"[">> \o to_string_members(value, 1) \o <<"]">>
      [] OTHER -> <<value.v>>

(***************************************************************************)
(*                        AUDIT LOG SIGNATURES                             *)
(* services/audit-store signing/signer.rs                                  *)
(***************************************************************************)
canonicalize_json(value) == to_string(sort_json_keys(value))

\* canonical_payload: the fields joined with "|"; an absent reason is the
\* empty string
canonical_payload(log) ==
    <<log.log_id, "|", log.tenant_id, "|">>
    \o canonicalize_json(log.subject) \o <<"|">>
    \o canonicalize_json(log.resource) \o <<"|">>
    \o canonicalize_json(log.environment) \o <<"|">>
    \o <<IF log.reason = Null THEN "" ELSE log.reason>>

\* Signer::sign: the HMAC-SHA256 of the data under the signer's key
sign(data) == [hmac |-> data]

sign_audit_log(log) == sign(canonical_payload(log))

\* the two records whose signatures are compared: equal scalar fields, any
\* subject, a resource in either key order
SignedLogs ==
    [log_id : {"l1"}, tenant_id : {"t1"}, subject : Json2,
     resource : {JObj(<<[k |-> "a", v |-> JNum("1")], [k |-> "b", v |-> JNum("1")]>>),
                 JObj(<<[k |-> "b", v |-> JNum("1")], [k |-> "a", v |-> JNum("1")]>>)},
     environment : {JObj(<<>>)}, reason : {Null}]

fn_sign_both ==
    /\ fnRet = NoRet
    /\ fnRet' = [op |-> "sign", first |-> sign_audit_log(fnArgs.first),
                 second |-> sign_audit_log(fnArgs.second)]
    /\ UNCHANGED fnArgs

\* no call under study
FnInit ==
    /\ fnArgs = NoRet
    /\ fnRet = NoRet

FnSignInit ==
    /\ fnArgs \in [first : SignedLogs, second : SignedLogs]
    /\ fnRet = NoRet

FnOnly == UNCHANGED <<bsVars, enfVars, httpVars, nsVars, mqttVars, qtVars, cqVars, auVars, mgVars, stVars, whVars, rdVars, cnVars>>

FnSignBoth == fn_sign_both /\ FnOnly

(***************************************************************************)
(*                        RESPONSE REDACTION                               *)
(* services/proxy-http redaction/engine.rs.  A removal returns the flag    *)
(* the code returns and the value the code leaves behind.                  *)
(***************************************************************************)
MAX_REDACTION_DEPTH == 10

\* a path after split('.'): the sequence of its keys
RedactionPaths == {<<"a">>, <<"b">>, <<"a", "b">>, <<"b", "a">>}
RedactionPathLists ==
    {<<>>} \cup {<<p>> : p \in RedactionPaths}
    \cup {<<p, q>> : p \in RedactionPaths, q \in RedactionPaths}

NotRemoved(value) == [removed |-> FALSE, value |-> value]

\* remove_field_recursive: follow the exact path from this value; an array
\* passes the whole path to each item
RECURSIVE remove_field_recursive(_, _, _)
remove_field_recursive(value, path_parts, depth) ==
    IF depth > MAX_REDACTION_DEPTH \/ path_parts = <<>> THEN NotRemoved(value)
    ELSE LET current_key == Head(path_parts)
             remaining_parts == Tail(path_parts)
             has == \E i \in DOMAIN value.m : value.m[i].k = current_key
         IN CASE value.t = "obj" /\ remaining_parts = <<>> ->
                   [removed |-> has,
                    value |-> JObj(SelectSeq(value.m, LAMBDA x : x.k # current_key))]
              [] value.t = "obj" /\ remaining_parts # <<>> /\ has ->
                   LET i == CHOOSE j \in DOMAIN value.m : value.m[j].k = current_key
                       r == remove_field_recursive(value.m[i].v, remaining_parts, depth + 1)
                   IN [removed |-> r.removed,
                       value |-> JObj([value.m EXCEPT ![i].v = r.value])]
              [] value.t = "arr" ->
                   LET r == [i \in DOMAIN value.m |->
                               remove_field_recursive(value.m[i].v, path_parts, depth + 1)]
                   IN [removed |-> \E i \in DOMAIN r : r[i].removed,
                       value |-> [value EXCEPT !.m = [i \in DOMAIN value.m |->
                                                         [k |-> "", v |-> r[i].value]]]]
              [] OTHER -> NotRemoved(value)

\* remove_field_at_any_depth: under each member of an object try the exact
\* path, and search deeper only where that removed nothing; under an array
\* search each item
RECURSIVE remove_field_at_any_depth(_, _, _)
remove_field_at_any_depth(value, path_parts, depth) ==
    IF depth > MAX_REDACTION_DEPTH THEN NotRemoved(value)
    ELSE CASE value.t = "obj" ->
                LET r == [i \in DOMAIN value.m |->
                            LET exact == remove_field_recursive(value.m[i].v, path_parts,
                                                                depth + 1)
                            IN IF exact.removed THEN exact
                               ELSE remove_field_at_any_depth(value.m[i].v, path_parts,
                                                              depth + 1)]
                IN [removed |-> \E i \in DOMAIN r : r[i].removed,
                    value |-> JObj([i \in DOMAIN value.m |->
                                       [k |-> value.m[i].k, v |-> r[i].value]])]
           [] value.t = "arr" ->
                LET r == [i \in DOMAIN value.m |->
                            remove_field_at_any_depth(value.m[i].v, path_parts, depth + 1)]
                IN [removed |-> \E i \in DOMAIN r : r[i].removed,
                    value |-> [value EXCEPT !.m = [i \in DOMAIN value.m |->
                                                      [k |-> "", v |-> r[i].value]]]]
           [] OTHER -> NotRemoved(value)

\* remove_field_by_path: the exact path from the root, and the search at any
\* depth only when the root matched nothing
remove_field_by_path(value, path_parts) ==
    IF path_parts = <<>> THEN NotRemoved(value)
    ELSE LET exact == remove_field_recursive(value, path_parts, 0)
         IN IF exact.removed THEN exact
            ELSE remove_field_at_any_depth(value, path_parts, 0)

RECURSIVE remove_paths(_, _)
remove_paths(value, paths) ==
    IF paths = <<>> THEN value
    ELSE remove_paths(remove_field_by_path(value, Head(paths)).value, Tail(paths))

\* redact_fields: from_slice reads the body into maps ordered by key, the
\* paths are removed in the order given, to_vec writes the maps out
redact_fields(json_body, paths) == remove_paths(sort_json_keys(json_body), paths)

\* the engine applied to a body, and again to what it returned
fn_redact ==
    /\ fnArgs # NoRet
    /\ "doc" \in DOMAIN fnArgs
    /\ \/ /\ fnRet = NoRet
          /\ fnRet' = [op |-> "redact", n |-> 1, input |-> fnArgs.doc,
                       body |-> redact_fields(fnArgs.doc, fnArgs.paths)]
       \/ /\ fnRet # NoRet
          /\ fnRet.n = 1
          /\ fnRet' = [op |-> "redact", n |-> 2, input |-> fnRet.body,
                       body |-> redact_fields(fnRet.body, fnArgs.paths)]
    /\ UNCHANGED fnArgs

FnRedactInit ==
    /\ fnArgs \in [doc : Json2, paths : RedactionPathLists]
    /\ fnRet = NoRet

FnRedact == fn_redact /\ FnOnly

(***************************************************************************)
(*              RELOADS WHILE THE BUNDLE DIRECTORY CHANGES                 *)
(* services/enforcer: main.rs spawn_hot_reload_watcher, api/handlers.rs    *)
(* reload_tenant, policy/manager.rs.  The dispatcher task and the request  *)
(* handlers run on the worker threads of one runtime; reload_tenant holds  *)
(* no lock between load_bundle and the insert of the engine.               *)
(***************************************************************************)
MaxDirChanges == 2

\* rule sets that load, build and verify
ValidBundles == {"allow_all", "deny_all"}

\* the bundle files of a tenant are rewritten; the filesystem watcher sends
\* one event for the tenant's directory
rd_change(t, dir) ==
    /\ rdChanges < MaxDirChanges
    /\ dir # rdDir[t]
    /\ rdDir' = [rdDir EXCEPT ![t] = dir]
    /\ rdEvents' = Append(rdEvents, t)
    /\ rdChanges' = rdChanges + 1
    /\ UNCHANGED enfVars

\* the dispatcher receives the next event and starts reload_tenant: load_bundle
\* reads the directory as it is now
rd_watcher_load ==
    /\ rdEvents # <<>>
    /\ reload_load("watcher", Head(rdEvents), rdDir[Head(rdEvents)])
    /\ rdEvents' = Tail(rdEvents)
    /\ UNCHANGED <<rdDir, rdChanges>>

\* POST /v1/tenants/:tenant_id/reload starts reload_tenant
rd_api_load(t) ==
    /\ reload_load("api", t, rdDir[t])
    /\ UNCHANGED rdVars

\* either reload reaches install_tenant_engine
rd_install(r) ==
    /\ reload_install(r)
    /\ UNCHANGED rdVars

RdInit ==
    /\ rdDir = [t \in Tenants |-> "allow_all"]
    /\ rdEvents = <<>>
    /\ rdChanges = 0

\* load_all_tenants at startup has built every tenant's engine from its
\* directory
EnfLoadedInit ==
    /\ engines = [t \in Tenants |->
                    install_tenant_engine([x \in Tenants |-> NoEngine], t,
                                          load_bundle("allow_all").bundle).engines[t]]
    /\ reloading = [r \in Reloaders |-> Idle]
    /\ querying = [q \in Queries |-> Idle]
    /\ enfRet = NoRet

RdOnly == UNCHANGED <<bsVars, httpVars, nsVars, mqttVars, qtVars, cqVars, auVars, mgVars, stVars, whVars, fnVars, cnVars>>

RdChange ==
    /\ \E t \in Tenants, dir \in ValidBundles : rd_change(t, dir)
    /\ RdOnly
RdWatcherLoad == rd_watcher_load /\ RdOnly
RdApiLoad ==
    /\ \E t \in Tenants : rd_api_load(t)
    /\ RdOnly
RdInstall ==
    /\ \E r \in Reloaders : rd_install(r)
    /\ RdOnly

(***************************************************************************)
(*               MQTT CONNECTIONS THAT SHARE A CLIENT ID                   *)
(* services/bridge-mqtt: broker.rs passes session.id.client_id of the      *)
(* connection to the hooks; hooks/session.rs keys the store by it.  A      *)
(* CONNECT with a client id that is in use takes the session over: the     *)
(* broker ends the earlier connection, whose ClientDisconnected hook runs  *)
(* when its task winds up.                                                 *)
(***************************************************************************)
MqttConnections == {"k1", "k2"}
NoConnection == [state |-> "none", client_id |-> Null, context |-> NoContext]

\* CONNECT on connection k: the ClientConnected hook; when it accepts, the
\* connection is up under the context the hook stored and an earlier
\* connection with the client id is taken over
cn_connect(k, client_id, username) ==
    /\ cnConn[k] = NoConnection
    /\ mqtt_connect(client_id, username)
    /\ LET got == extract_tenant_context(client_id, username, extract_cert_der)
       IN cnConn' = IF ~got.ok THEN cnConn
                    ELSE [x \in MqttConnections |->
                            IF x = k
                            THEN [state |-> "connected", client_id |-> client_id,
                                  context |-> got.context]
                            ELSE IF cnConn[x].state = "connected"
                                    /\ cnConn[x].client_id = client_id
                            THEN [cnConn[x] EXCEPT !.state = "taken_over"]
                            ELSE cnConn[x]]
    /\ cnLast' = Null

\* connection k has ended (by the client, or taken over): the
\* ClientDisconnected hook with the connection's client id
cn_disconnect(k) ==
    /\ cnConn[k] # NoConnection
    /\ IF sessions[cnConn[k].client_id] # NoContext
       THEN mqtt_disconnect(cnConn[k].client_id)
       ELSE /\ mqttRet' = [op |-> "disconnect", client_id |-> cnConn[k].client_id]
            /\ UNCHANGED <<sessions, mqttQuota, publishing, mqttNow>>
    /\ cnConn' = [cnConn EXCEPT ![k] = NoConnection]
    /\ cnLast' = Null

\* SUBSCRIBE on a connection that is up
cn_subscribe(k, topic_filter, reply) ==
    /\ cnConn[k].state = "connected"
    /\ mqtt_subscribe(cnConn[k].client_id, topic_filter, reply)
    /\ cnLast' = k
    /\ UNCHANGED cnConn

\* PUBLISH on a connection that is up
cn_publish(k, p, topic, size) ==
    /\ cnConn[k].state = "connected"
    /\ mqtt_publish_start(p, cnConn[k].client_id, topic, size)
    /\ cnLast' = k
    /\ UNCHANGED cnConn

CnInit ==
    /\ cnConn = [k \in MqttConnections |-> NoConnection]
    /\ cnLast = Null

CnOnly == UNCHANGED <<bsVars, enfVars, httpVars, nsVars, qtVars, cqVars, auVars, mgVars, stVars, whVars, fnVars, rdVars>>

CnConnect ==
    /\ \E k \in MqttConnections, c \in MqttClientIds, u \in MqttUsernames :
          cn_connect(k, c, u)
    /\ CnOnly
CnDisconnect ==
    /\ \E k \in MqttConnections : cn_disconnect(k)
    /\ CnOnly
CnSubscribe ==
    /\ \E k \in MqttConnections, f \in MqttTopics, reply \in MqttPolicyReplies :
          cn_subscribe(k, f, reply)
    /\ CnOnly
CnPublish ==
    /\ \E k \in MqttConnections, topic \in MqttTopics, n \in PayloadSizes :
          cn_publish(k, "p1", topic, n)
    /\ CnOnly

(***************************************************************************)
(*                            SPECIFICATIONS                               *)
(***************************************************************************)
BsNext == StoreBundle \/ ActivateLookup \/ ActivateCommit \/ ArchiveBundle

BundleInit == BsSeededInit /\ EnfInit /\ HttpInit /\ NsInit /\ MqttInit /\ QtInit /\ CqInit /\ AuInit /\ MgInit /\ StInit /\ WhInit /\ FnInit /\ RdInit /\ CnInit

SpecBundle == BundleInit /\ [][BsNext]_vars

\* activate_bundle and archive_bundle among stores that take the ids in order
BsActivateNext ==
    StoreBundleInOrder \/ ActivateLookup \/ ActivateCommit \/ ArchiveBundle
BundleActivateInit == BsSeededInit /\ EnfInit /\ HttpInit /\ NsInit /\ MqttInit /\ QtInit /\ CqInit /\ AuInit /\ MgInit /\ StInit /\ WhInit /\ FnInit /\ RdInit /\ CnInit
SpecBundleActivate == BundleActivateInit /\ [][BsActivateNext]_vars

EnfNext == ReloadLoad \/ ReloadInstall \/ QueryStart \/ QueryFinish

EnforcerInit == BsInit /\ EnfInit /\ HttpInit /\ NsInit /\ MqttInit /\ QtInit /\ CqInit /\ AuInit /\ MgInit /\ StInit /\ WhInit /\ FnInit /\ RdInit /\ CnInit

SpecEnforcer == EnforcerInit /\ [][EnfNext]_vars

HttpNext == HttpReceive \/ HttpPolicyReply \/ HttpUpstreamReply \/ HttpTimeout

HttpAdapterInit == BsInit /\ EnfInit /\ HttpInit /\ NsInit /\ MqttInit /\ QtInit /\ CqInit /\ AuInit /\ MgInit /\ StInit /\ WhInit /\ FnInit /\ RdInit /\ CnInit

SpecHttp == HttpAdapterInit /\ [][HttpNext]_vars

NsNext == ValidateTopic

TopicNamespaceInit == BsInit /\ EnfInit /\ HttpInit /\ NsInit /\ MqttInit /\ QtInit /\ CqInit /\ AuInit /\ MgInit /\ StInit /\ WhInit /\ FnInit /\ RdInit /\ CnInit

SpecTopicNamespace == TopicNamespaceInit /\ [][NsNext]_vars

MqttNext ==
    \/ MqttConnect \/ MqttDisconnect \/ MqttPublishStart \/ MqttPublishFinish
    \/ MqttSubscribe \/ MqttTick

MqttAdapterInit == BsInit /\ EnfInit /\ HttpInit /\ NsInit /\ MqttInit /\ QtInit /\ CqInit /\ AuInit /\ MgInit /\ StInit /\ WhInit /\ FnInit /\ RdInit /\ CnInit

SpecMqtt == MqttAdapterInit /\ [][MqttNext]_vars

\* the hooks within one day
MqttSessionNext ==
    \/ MqttConnect \/ MqttDisconnect \/ MqttPublishStart \/ MqttPublishFinish
    \/ MqttSubscribe
MqttSessionInit == BsInit /\ EnfInit /\ HttpInit /\ NsInit /\ MqttInit /\ QtInit /\ CqInit /\ AuInit /\ MgInit /\ StInit /\ WhInit /\ FnInit /\ RdInit /\ CnInit
SpecMqttSession == MqttSessionInit /\ [][MqttSessionNext]_vars

MqttQuotaNext ==
    \/ MqttConnect \/ MqttDisconnect \/ MqttPublishStartOne \/ MqttPublishFinish
    \/ MqttTick
MqttQuotaInit == BsInit /\ EnfInit /\ HttpInit /\ NsInit /\ MqttInit /\ QtInit /\ CqInit /\ AuInit /\ MgInit /\ StInit /\ WhInit /\ FnInit /\ RdInit /\ CnInit
SpecMqttQuota == MqttQuotaInit /\ [][MqttQuotaNext]_vars

SignNext == FnSignBoth
SignInit == BsInit /\ EnfInit /\ HttpInit /\ NsInit /\ MqttInit /\ QtInit /\ CqInit /\ AuInit /\ MgInit /\ StInit /\ WhInit /\ FnSignInit /\ RdInit /\ CnInit
SpecSign == SignInit /\ [][SignNext]_vars

RedactNext == FnRedact
RedactInit == BsInit /\ EnfInit /\ HttpInit /\ NsInit /\ MqttInit /\ QtInit /\ CqInit /\ AuInit /\ MgInit /\ StInit /\ WhInit /\ FnRedactInit /\ RdInit /\ CnInit
SpecRedact == RedactInit /\ [][RedactNext]_vars

RdNext == RdChange \/ RdWatcherLoad \/ RdApiLoad \/ RdInstall
ReloadRaceInit == BsInit /\ EnfLoadedInit /\ HttpInit /\ NsInit /\ MqttInit /\ QtInit /\ CqInit /\ AuInit /\ MgInit /\ StInit /\ WhInit /\ FnInit /\ RdInit /\ CnInit
SpecReloadRace == ReloadRaceInit /\ [][RdNext]_vars

\* connections, each with the hooks the broker runs for it
CnNext == CnConnect \/ CnDisconnect \/ CnSubscribe \/ CnPublish \/ MqttPublishFinish
MqttConnectionsInit == BsInit /\ EnfInit /\ HttpInit /\ NsInit /\ MqttInit /\ QtInit /\ CqInit /\ AuInit /\ MgInit /\ StInit /\ WhInit /\ FnInit /\ RdInit /\ CnInit
SpecMqttConnections == MqttConnectionsInit /\ [][CnNext]_vars

QtNext == QtIncrementBegin \/ QtIncrementInsert \/ QtIncrementUpdate \/ QtTick

QuotaTrackerInit == BsInit /\ EnfInit /\ HttpInit /\ NsInit /\ MqttInit /\ QtInit /\ CqInit /\ AuInit /\ MgInit /\ StInit /\ WhInit /\ FnInit /\ RdInit /\ CnInit

\* the tracker under increments, changes of the limits and quota checks
QtCheckNext ==
    \/ QtIncrementBegin
    \/ QtIncrementInsert
    \/ QtIncrementUpdate
    \/ QtTick
    \/ QtCheck
    \/ QtSetLimitsBegin
    \/ QtSetLimitsInsert
    \/ QtSetLimitsUpdate
QuotaCheckInit == BsInit /\ EnfInit /\ HttpInit /\ NsInit /\ MqttInit /\ QtInit /\ CqInit /\ AuInit /\ MgInit /\ StInit /\ WhInit /\ FnInit /\ RdInit /\ CnInit
SpecQuotaCheck == QuotaCheckInit /\ [][QtCheckNext]_vars

\* the tracker under increments, the persistence task and restarts
QtRestartNext ==
    \/ QtIncrementBegin
    \/ QtIncrementInsert
    \/ QtIncrementUpdate
    \/ QtTick
    \/ QtPersist
    \/ QtRestart
QuotaRestartInit == BsInit /\ EnfInit /\ HttpInit /\ NsInit /\ MqttInit /\ QtInit /\ CqInit /\ AuInit /\ MgInit /\ StInit /\ WhInit /\ FnInit /\ RdInit /\ CnInit
SpecQuotaRestart == QuotaRestartInit /\ [][QtRestartNext]_vars

\* the tracker under resets, with increments and the persistence task beside
\* them
QtResetNext ==
    \/ QtSoloIncrementBegin
    \/ QtSoloIncrementInsert
    \/ QtSoloIncrementUpdate
    \/ QtTick
    \/ QtPersist
    \/ QtResetBegin
    \/ QtResetInsert
    \/ QtResetZero
    \/ QtResetSave
QuotaResetInit == BsInit /\ EnfInit /\ HttpInit /\ NsInit /\ MqttInit /\ QtBusyInit /\ CqInit /\ AuInit /\ MgInit /\ StInit /\ WhInit /\ FnInit /\ RdInit /\ CnInit
SpecQuotaReset == QuotaResetInit /\ [][QtResetNext]_vars

CqNext == BridgeCheckQuota \/ TrackerCheckQuota
CheckQuotaInit == BsInit /\ EnfInit /\ HttpInit /\ NsInit /\ MqttInit /\ QtInit /\ CqInit /\ AuInit /\ MgInit /\ StInit /\ WhInit /\ FnInit /\ RdInit /\ CnInit
SpecCheckQuota == CheckQuotaInit /\ [][CqNext]_vars

SpecQuota == QuotaTrackerInit /\ [][QtNext]_vars

\* the routes and the upload task, the endpoint answering as it likes
AuNext ==
    \/ WriteAuditLog \/ MarkUploaded
    \/ ProcessUploadsBegin \/ ProcessUploadsFetch \/ UploadBatchPost
    \/ ProcessUploadsMark
AuditUploadInit == BsInit /\ EnfInit /\ HttpInit /\ NsInit /\ MqttInit /\ QtInit /\ CqInit /\ AuInit /\ MgInit /\ StInit /\ WhInit /\ FnInit /\ RdInit /\ CnInit
SpecAuditUpload == AuditUploadInit /\ [][AuNext]_vars

MgNext == MgActivateBegin \/ MgActivateWrite \/ MgActivateReload \/ MgWatcherReload
ManagementInit == BsDeployedInit /\ EnfInit /\ HttpInit /\ NsInit /\ MqttInit /\ QtInit /\ CqInit /\ AuInit /\ MgInit /\ StInit /\ WhInit /\ FnInit /\ RdInit /\ CnInit
SpecManagement == ManagementInit /\ [][MgNext]_vars

StNext == StPublishAllowed \/ StConnectUnfiltered \/ StRecv \/ StForward \/ StSink \/ StClose
StreamInit == BsInit /\ EnfInit /\ HttpInit /\ NsInit /\ MqttInit /\ QtInit /\ CqInit /\ AuInit /\ MgInit /\ StInit /\ WhInit /\ FnInit /\ RdInit /\ CnInit
SpecStream == StreamInit /\ [][StNext]_vars

StFilterNext ==
    \/ StPublishNoLag \/ StConnectOne \/ StRecv \/ StForward \/ StSink
    \/ StFilterOne \/ StPingOne \/ StClose
StreamFilterInit == BsInit /\ EnfInit /\ HttpInit /\ NsInit /\ MqttInit /\ QtInit /\ CqInit /\ AuInit /\ MgInit /\ StInit /\ WhInit /\ FnInit /\ RdInit /\ CnInit
SpecStreamFilter == StreamFilterInit /\ [][StFilterNext]_vars

WhNext == WhNotify \/ WhDispatch
WatcherInit == BsInit /\ EnfInit /\ HttpInit /\ NsInit /\ MqttInit /\ QtInit /\ CqInit /\ AuInit /\ MgInit /\ StInit /\ WhInit /\ FnInit /\ RdInit /\ CnInit
SpecWatcher == WatcherInit /\ [][WhNext]_vars
\* the dispatcher is a spawned task whose only await is the channel's recv: it
\* takes its next turn whenever an event is waiting
WhLiveNext == WhNotifyAtOnce \/ WhDispatchPlain
WatcherLiveInit == BsInit /\ EnfInit /\ HttpInit /\ NsInit /\ MqttInit /\ QtInit /\ CqInit /\ AuInit /\ MgInit /\ StInit /\ WhInit /\ FnInit /\ RdInit /\ CnInit
SpecWatcherLive == WatcherLiveInit /\ [][WhLiveNext]_vars /\ WF_vars(WhDispatchPlain)

\* The upload task for as long as the service runs. UploadQueue::start
\* loops forever over ticker.tick() and process_uploads, whose errors are
\* only logged, and every await of a cycle returns (the POST with a
\* response or an error, the sleep after its backoff): each step of the
\* task that can be taken is taken. The database answers, and the endpoint
\* comes to accept every upload and then keeps doing so.
AuLiveNext ==
    \/ WriteAuditLog \/ EndpointRecovers
    \/ ProcessUploadsBegin \/ ProcessUploadsFetchOk \/ UploadBatchPost
    \/ ProcessUploadsMarkOk
AuditUploadLiveInit == BsInit /\ EnfInit /\ HttpInit /\ NsInit /\ MqttInit /\ QtInit /\ CqInit /\ AuLiveInit /\ MgInit /\ StInit /\ WhInit /\ FnInit /\ RdInit /\ CnInit
SpecAuditUploadLive ==
    /\ AuditUploadLiveInit /\ [][AuLiveNext]_vars
    /\ WF_vars(ProcessUploadsBegin) /\ WF_vars(ProcessUploadsFetchOk)
    /\ WF_vars(UploadBatchPost) /\ WF_vars(ProcessUploadsMarkOk)
    /\ WF_vars(EndpointRecovers)

(***************************************************************************)
(*                          BUNDLE STORE CLAIMS                            *)
(***************************************************************************)
ActiveCount(t) == Cardinality({b \in TenantRows(rows, t) : rows[b].status = "active"})

ReloadReturned(res) == enfRet.op = "reload" /\ enfRet.result = res
ReloadFailures == {"BundleLoadError", "InvalidPolicy"}

\* C2: a reload of a tenant whose bundle cannot be loaded, cannot be built into
\* an engine, or whose entry point fails verification returns the failure to
\* the caller and leaves the registry (every tenant's installed engine) exactly
\* as it was; only a reload that returns Ok changes the registry.
C2_FailedReloadKeepsEngine ==
    [][ /\ \A r \in Reloaders :
             (reloading[r] # Idle /\ reloading'[r] = Idle
                /\ reloading[r].bundle \in {"malformed", "noentry"})
             => enfRet'.op = "reload" /\ enfRet'.result \in ReloadFailures
        /\ (enfRet'.op = "reload" /\ enfRet'.result \in ReloadFailures)
             => engines' = engines
      ]_vars

\* A reload failed at verification while the tenant's earlier engine is still
\* the one installed.
C2_Witness ==
    /\ ReloadReturned("InvalidPolicy")
    /\ engines[enfRet.tenant_id] # NoEngine
    /\ engines[enfRet.tenant_id].policy = "allow_all"

\* C3: the registry only ever holds complete engines (built and verified for
\* the tenant they are filed under), and a query that returns a decision
\* returns the decision of the one engine it looked up, whatever reloads
\* complete while it is being evaluated.
C3_QueryRunsOnOneEngine ==
    /\ \A t \in Tenants :
          engines[t] # NoEngine =>
             /\ engines[t].tenant_id = t
             /\ verify_entrypoint(engines[t]) = "Ok"
    /\ \A q \in Queries :
          querying[q] # Idle => verify_entrypoint(querying[q].engine) = "Ok"
    /\ (enfRet.op = "query" /\ enfRet.status = 200) =>
          /\ enfRet.engine # NoEngine
          /\ enfRet.decision = parse_decision(eval_rule(enfRet.engine))

\* A query answered from the engine it looked up although a reload replaced the
\* tenant's engine with a different one before the answer.
C3_Witness ==
    /\ enfRet.op = "query" /\ enfRet.status = 200
    /\ enfRet.decision.allow = TRUE
    /\ engines[enfRet.url_tenant] # enfRet.engine

InputDiffers(url, inp) == inp.type = "string" /\ inp.s # url
InputMissing(inp)      == inp.type # "string"
Rejected ==
    /\ enfRet.status \in {400, 403}
    /\ enfRet.engine = NoEngine
    /\ enfRet.decision = NoDecision
    /\ enfRet.event = NoEvent

\* C4 as stated: whenever the input's tenant differs from the URL's tenant the
\* query is rejected with TENANT_MISMATCH, no decision and no event.
C4_Original ==
    (enfRet.op = "query" /\ InputDiffers(enfRet.url_tenant, enfRet.input_tenant))
       => (Rejected /\ enfRet.code = "TENANT_MISMATCH")

\* C4 (amended): a query whose input tenant differs from the URL tenant, or is
\* absent, is rejected before any engine is looked up, with no decision and no event; the
\* error is TENANT_MISMATCH (403) exactly when both identifiers are well-formed
\* strings, INVALID_TENANT (400) when the URL's or the input's identifier is
\* ill-formed, and MISSING_TENANT (400) when the input carries no string tenant.
C4_MismatchRejected ==
    (enfRet.op = "query"
       /\ (InputDiffers(enfRet.url_tenant, enfRet.input_tenant)
             \/ InputMissing(enfRet.input_tenant)))
       => /\ Rejected
          /\ enfRet.code =
               IF validate_tenant_id_format(enfRet.url_tenant) # "Ok"
               THEN "INVALID_TENANT"
               ELSE IF enfRet.input_tenant.type # "string" THEN "MISSING_TENANT"
               ELSE IF validate_tenant_id_format(enfRet.input_tenant.s) # "Ok"
               THEN "INVALID_TENANT"
               ELSE "TENANT_MISMATCH"
          /\ (enfRet.code = "TENANT_MISMATCH") = (enfRet.status = 403)

\* Two well-formed, different tenants, for a tenant whose engine is installed.
C4_Witness ==
    /\ enfRet.op = "query"
    /\ enfRet.code = "TENANT_MISMATCH"
    /\ enfRet.url_tenant = "t1" /\ enfRet.input_tenant = [type |-> "string", s |-> "t2"]
    /\ engines["t1"] # NoEngine

\* C5: an evaluation that takes longer than MAX_EVAL_TIME_MS is answered with
\* EVALUATION_ERROR (500), never with a decision, and emits no event.
C5_TimeoutIsError ==
    (enfRet.op = "query" /\ enfRet.elapsed > MAX_EVAL_TIME_MS)
       => /\ enfRet.status = 500
          /\ enfRet.code = "EVALUATION_ERROR"
          /\ enfRet.decision = NoDecision
          /\ enfRet.event = NoEvent

\* An allow-all engine whose evaluation overran the limit.
C5_Witness ==
    /\ enfRet.op = "query"
    /\ enfRet.elapsed > MAX_EVAL_TIME_MS
    /\ enfRet.engine # NoEngine
    /\ enfRet.engine.policy = "allow_all"
    /\ enfRet.code = "EVALUATION_ERROR"

(***************************************************************************)
(*                        HTTP ADAPTER PROPERTIES                          *)
(***************************************************************************)
\* C6: a request whose policy decision is deny is answered with status 403 and
\* error POLICY_DENIED, and is not forwarded to the upstream.
C6_DenyGets403 ==
    (httpRet.op = "http" /\ httpRet.policy = "deny")
       => /\ httpRet.outcome = "response"
          /\ httpRet.status = 403
          /\ httpRet.error = "POLICY_DENIED"
          /\ httpRet.forwarded = FALSE

\* What the adapter does keep: a denied request never reaches the upstream.
HttpDeniedNotForwarded ==
    /\ (httpRet.op = "http" /\ httpRet.policy = "deny") => httpRet.forwarded = FALSE
    /\ \A c \in HttpClients : upstreamHits[c] <= httpSent[c]

(***************************************************************************)
(*                      TOPIC NAMESPACE PROPERTIES                         *)
(***************************************************************************)
\* MQTT containment of a filter (or topic) in a pattern, by segments: every
\* topic the filter matches is matched by the pattern.  '#' stands for the
\* rest only as the last segment of the pattern.
RECURSIVE LiesWithin(_, _)
LiesWithin(pattern_segments, filter_segments) ==
    IF pattern_segments = << >> THEN filter_segments = << >>
    ELSE IF Head(pattern_segments) = Hash THEN Len(pattern_segments) = 1
    ELSE IF filter_segments = << >> THEN FALSE
    ELSE IF Head(filter_segments) = Hash THEN FALSE
    ELSE IF Head(pattern_segments) = Plus
         THEN LiesWithin(Tail(pattern_segments), Tail(filter_segments))
    ELSE /\ Head(filter_segments) = Head(pattern_segments)
         /\ LiesWithin(Tail(pattern_segments), Tail(filter_segments))

\* the level of the pattern that holds the placeholder
TenantPosition(pattern) ==
    CHOOSE i \in 1..Len(split(pattern)) :
        \E j \in 1..Len(split(pattern)[i]) : split(pattern)[i][j] = "{tenant_id}"

WildcardAtTenantPosition(pattern, topic) ==
    /\ TenantPosition(pattern) <= Len(split(topic))
    /\ split(topic)[TenantPosition(pattern)] \in {Plus, Hash}

\* C7: a topic or filter passes namespace validation only if it lies within the
\* configured pattern with {tenant_id} replaced by the session's tenant id, and
\* never when it has '+' or '#' at the tenant position.
C7_PassesOnlyWithinNamespace ==
    (nsRet.op = "validate" /\ nsRet.passes)
       => /\ LiesWithin(split(replace_tenant(nsRet.pattern, nsRet.tenant_id)),
                        split(nsRet.topic))
          /\ ~WildcardAtTenantPosition(nsRet.pattern, nsRet.topic)

\* With the default pattern the check does keep a session inside its namespace.
NsDefaultPatternHolds ==
    (nsRet.op = "validate" /\ nsRet.passes
       /\ nsRet.pattern = <<"{tenant_id}", "/", "#">>)
       => /\ LiesWithin(split(replace_tenant(nsRet.pattern, nsRet.tenant_id)),
                        split(nsRet.topic))
          /\ ~WildcardAtTenantPosition(nsRet.pattern, nsRet.topic)

(***************************************************************************)
(*                        MQTT ADAPTER PROPERTIES                          *)
(***************************************************************************)
\* the tenant ids the identity sources of a CONNECT yield (the broker passes
\* no certificate)
YieldedTenants(client_id, username) ==
    (IF extract_from_client_id(client_id).ok
     THEN {extract_from_client_id(client_id).tenant_id} ELSE {})
    \cup (IF username # Null /\ extract_from_username(username).ok
          THEN {extract_from_username(username).tenant_id} ELSE {})

\* C8: a connection whose identity sources yield two or more tenant ids is
\* accepted only if all of them are equal.
C8_ConnectRequiresAgreement ==
    (mqttRet.op = "connect" /\ mqttRet.result = "Ok")
       => Cardinality(YieldedTenants(mqttRet.client_id, mqttRet.username)) <= 1

\* C9: within one period a tenant's count of accepted publishes never exceeds
\* the message limit, under any interleaving of concurrent publishes.
C9_AtMostLimitAccepted ==
    \A t \in Tenants :
        mqttQuota[t] # NoMetrics => mqttQuota[t].message_count <= MessageLimit

(***************************************************************************)
(*                       QUOTA TRACKER PROPERTIES                          *)
(***************************************************************************)
\* C10: after an increment, the tenant's message counter equals the sum of the
\* messages arguments of the increments made in the current day and its byte
\* counter the sum of the bytes arguments of the increments made in the
\* current month, for all argument values including 0.
C10_CountersEqualSums ==
    qtRet.op = "increment" =>
        /\ qtRet.message_count = qtSum[qtRet.tenant_id].messages
        /\ qtRet.bytes_sent = qtSum[qtRet.tenant_id].bytes

\* C11: no increment is lost.  When an increment returns, the counters it
\* reports contain every increment of the tenant that has taken effect in the
\* period, the ones that created the entry included: the message counter is the
\* sum of the increments the calls applied, the byte counter the sum of their
\* byte arguments.
C11_NoIncrementLost ==
    qtRet.op = "increment" =>
        /\ qtRet.message_count = qtSum[qtRet.tenant_id].counted
        /\ qtRet.bytes_sent = qtSum[qtRet.tenant_id].bytes

\* C12: once the day has changed, a check with no other operation in between
\* does not report the message limit as exceeded: a check made on a day on
\* which no increment of the tenant has been counted never returns
\* LimitExceeded for the message count.
C12_OkAfterDayChange ==
    (qtRet.op = "check" /\ qtSum[qtRet.tenant_id].counted = 0) =>
        ~(/\ qtRet.check.result = "LimitExceeded"
          /\ qtRet.check.quota_type = MESSAGE_QUOTA_TYPE)

(***************************************************************************)
(*                        check_quota PROPERTIES                           *)
(***************************************************************************)
\* the counters a check compares: those of the metrics, zero when the tenant
\* has none
CqCount(field) == IF cqRet.metrics = NoMetrics THEN 0 ELSE cqRet.metrics[field]
AtOrAboveNonZeroLimit ==
    \/ cqRet.message_limit > 0 /\ CqCount("message_count") >= cqRet.message_limit
    \/ cqRet.bandwidth_limit_bytes > 0
       /\ CqCount("bytes_sent") >= cqRet.bandwidth_limit_bytes

\* C13: a check returns LimitExceeded exactly when the message counter is at or
\* above a non-zero message limit or the byte counter is at or above a non-zero
\* bandwidth limit (so a limit of zero never causes it), and Ok in every other
\* case.
C13_ExceededIffAtNonZeroLimit ==
    cqRet.op = "check_quota" =>
        /\ cqRet.result = "LimitExceeded" <=> AtOrAboveNonZeroLimit
        /\ cqRet.result = "Ok" <=> ~AtOrAboveNonZeroLimit

(***************************************************************************)
(*                        COUNTER RESET PROPERTIES                         *)
(***************************************************************************)
\* C14: a tenant's byte counter is reset only when the calendar month changes,
\* so a day rollover leaves it unchanged: while the month is the one in which
\* the adapter's counters of the tenant were last reset, no step makes the
\* tenant's byte counter smaller.
C14_BytesKeptWithinMonth ==
    [][\A t \in Tenants :
          (/\ mqttQuota[t] # NoMetrics
           /\ mqttQuota'[t] # NoMetrics
           /\ current_month_period(mqttNow')
                = current_month_period(mqttQuota[t].last_reset))
          => mqttQuota'[t].bytes_sent >= mqttQuota[t].bytes_sent]_vars

\* C15: usage counted before the tracker stops is reported after it restarts
\* within the same period: a restart leaves every tenant whose entry is of the
\* current day with an entry holding the same message count.
C15_CountSurvivesRestart ==
    [][(qtRet'.op = "restart" /\ qtOps' # qtOps) =>
          \A t \in QtTenants :
              (qtCache[t] # NoMetrics /\ qtCache[t].period = current_day_period(qtNow))
              => /\ qtCache'[t] # NoMetrics
                 /\ qtCache'[t].message_count = qtCache[t].message_count]_vars

(***************************************************************************)
(*                           RESET PROPERTIES                              *)
(***************************************************************************)
\* no other call changed the tenant's counters or limits while the reset ran,
\* and none for the tenant is in flight when it returns
ResetUndisturbed ==
    /\ qtSum[qtRet.tenant_id].calls = qtRet.calls
    /\ qtSum[qtRet.tenant_id].sets = qtRet.sets
    /\ \A c \in QtCallers :
          incrementing[c] # Idle => incrementing[c].tenant_id # qtRet.tenant_id
    /\ \A c \in QtSetters :
          limiting[c] # Idle => limiting[c].tenant_id # qtRet.tenant_id
ResetReturnedOk == qtRet.op = "reset" /\ qtRet.result = "Ok"

\* what holds of tenant t when its reset has returned
ResetPostcondition(t) ==
    /\ qtCache[t] # NoMetrics
    /\ qtCache[t].message_count = 0
    /\ qtCache[t].bytes_sent = 0
    /\ qtRet.started <= qtCache[t].last_reset /\ qtCache[t].last_reset <= qtNow
    /\ qtCache[t].period = current_day_period(qtCache[t].last_reset)
    /\ load_usage(qtDbUsage, t, current_day_period(qtNow), MESSAGE_QUOTA_TYPE) = 0
    /\ load_usage(qtDbUsage, t, current_month_period(qtNow), BANDWIDTH_QUOTA_TYPE) = 0
    /\ qtRet.started = qtNow =>
          /\ qtDbUsage[t][MESSAGE_QUOTA_TYPE][current_day_period(qtNow)] = [used |-> 0]
          /\ qtDbUsage[t][BANDWIDTH_QUOTA_TYPE][current_month_period(qtNow)] = [used |-> 0]
    /\ limits_of(qtCache[t]) = qtRet.limits
    /\ qtDbLimits[t] = qtRet.stored

\* a step of a reset call for tenant t leaves every other tenant as it was
ResetStepOf(c) ==
    /\ resetting'[c] # resetting[c]
    /\ \A u \in QtTenants \ {IF resetting[c] # Idle THEN resetting[c].tenant_id
                               ELSE resetting'[c].tenant_id} :
          /\ qtCache'[u] = qtCache[u]
          /\ qtDbLimits'[u] = qtDbLimits[u]
          /\ qtDbUsage'[u] = qtDbUsage[u]

\* C16: after a reset of tenant T has returned successfully (no other call
\* having changed T's counters or limits meanwhile), T's message and byte
\* counters in memory are zero, its period and last_reset carry the time of the
\* reset, the durable usage of the current day and month is zero, and T's
\* limits are the ones it had; no step of the reset changes another tenant's
\* entry, limits or usage rows.
C16_ResetZeroesCountersOfTenant ==
    /\ [](ResetReturnedOk /\ ResetUndisturbed => ResetPostcondition(qtRet.tenant_id))
    /\ [][\A c \in QtResetters : resetting'[c] # resetting[c] => ResetStepOf(c)]_vars

\* a reset has returned for a tenant that had increments counted and an
\* entry, while another tenant is tracked with usage of its own
C16_Witness ==
    /\ ResetReturnedOk /\ ResetUndisturbed
    /\ qtRet.calls > 0
    /\ qtRet.limits # QtDefaultLimits
    /\ \E u \in QtTenants \ {qtRet.tenant_id} :
          qtCache[u] # NoMetrics /\ qtCache[u].message_count > 0

(***************************************************************************)
(*                  PROPERTIES OF THE AUDIT LOG UPLOAD                     *)
(***************************************************************************)
Stored(logs, id) == logs[id] # NoRow
Uploaded(logs, id) == Stored(logs, id) /\ logs[id].uploaded
\* a step of the upload task that marks rows: process_uploads_mark
TaskMarks == auTask.pc = "mark" /\ auTask' # auTask

\* C17: every audit log is stored with uploaded = false; the upload task
\* sets uploaded = true on a row only after the endpoint has answered with
\* a success status the POST of a batch that contains the row; a row marked
\* uploaded is never set back to false (and is never removed).
C17_UploadedOnlyAfterAck ==
    [][\A id \in AuLogIds :
        /\ (~Stored(auLogs, id) /\ Stored(auLogs', id)) => ~auLogs'[id].uploaded
        /\ Uploaded(auLogs, id) => Uploaded(auLogs', id)
        /\ (TaskMarks /\ ~Uploaded(auLogs, id) /\ Uploaded(auLogs', id))
              => /\ auTask.last = "2xx"
                 /\ id \in auTask.batch
                 /\ id \in auAcked]_vars

\* the task has marked an acknowledged row of a tenant while a row of the
\* same tenant, which was not in the batch, stays unmarked
C17_Witness ==
    \E id \in AuLogIds, other \in AuLogIds :
        /\ Uploaded(auLogs, id) /\ id \in auAcked
        /\ Stored(auLogs, other) /\ ~auLogs[other].uploaded
        /\ auLogs[other].tenant_id = auLogs[id].tenant_id
        /\ other \notin auAcked
        /\ auTask.pc = "fetch"

C19_AtMostThreePosts ==
    auTask.pc = "post" =>
        /\ auTask.posts < 3
        /\ auTask.last \in {"none", "5xx"}


(***************************************************************************)
(*                 PROPERTIES OF THE BUNDLE STORE'S VERSIONS               *)
(***************************************************************************)
Versions(tbl, t) == {tbl[b].version : b \in TenantRows(tbl, t)}

\* C20: store gives each new bundle the version max(existing versions of its
\* tenant) + 1, which is 1 for the tenant's first bundle, so that the
\* versions of a tenant are unique and every stored bundle has a version
\* above those stored before it, whatever the order in which concurrent
\* store calls take the connection.
C20_StoreAssignsNextVersion ==
    /\ [](\A b \in BundleIds, c \in BundleIds :
            (/\ rows[b] # NoRow /\ rows[c] # NoRow /\ b # c
             /\ rows[b].tenant_id = rows[c].tenant_id)
                => rows[b].version # rows[c].version)
    /\ [][(bsRet'.op = "store" /\ rows[bsRet'.bundle_id] = NoRow)
            => /\ rows'[bsRet'.bundle_id] # NoRow
               /\ rows'[bsRet'.bundle_id].version =
                      SetMax(Versions(rows, bsRet'.tenant_id)) + 1]_vars


(***************************************************************************)
(*            PROPERTIES OF activate_bundle AND archive_bundle             *)
(***************************************************************************)
\* the step is the transaction of caller c's activate_bundle
ActivateCommitOf(c) == activating[c] # Idle /\ activating'[c] = Idle

\* C21: activation is atomic to observers. get_active_bundle reads the table
\* between steps, so: the first half of activate_bundle changes no row; no
\* step leaves a tenant whose active bundle it demoted without an active
\* bundle; and right after the transaction of activate(b) get_active_bundle
\* of b's tenant returns b, as the only active bundle, with activated_at set.
C21_ActivationIsAtomic ==
    [][/\ \A c \in Callers :
            (activating[c] = Idle /\ activating'[c] # Idle) => rows' = rows
       /\ \A x \in BundleIds :
            (/\ rows[x] # NoRow /\ rows[x].status = "active"
             /\ rows'[x].status = "inactive")
                => get_active_bundle(rows', rows[x].tenant_id) # NoRow
       /\ \A c \in Callers :
            ActivateCommitOf(c) =>
                LET b == activating[c].bundle_id
                    t == activating[c].tenant_id
                IN /\ get_active_bundle(rows', t) = rows'[b]
                   /\ rows'[b].status = "active"
                   /\ rows'[b].activated_at # Null
                   /\ \A x \in TenantRows(rows', t) :
                          rows'[x].status = "active" => x = b]_vars

\* activate(b) has succeeded where another bundle of the tenant was active:
\* that one is inactive now and b is the active bundle
C21_Witness ==
    /\ bsRet.op = "activate" /\ bsRet.result = "Ok"
    /\ rows[bsRet.bundle_id].status = "active"
    /\ rows[bsRet.bundle_id].activated_at = "now"
    /\ \E x \in BundleIds :
          /\ x # bsRet.bundle_id /\ rows[x] # NoRow
          /\ rows[x].tenant_id = rows[bsRet.bundle_id].tenant_id
          /\ rows[x].status = "inactive"

\* C22: activate or archive called with a bundle_id that no row has is
\* rejected with an error and changes no row of the store.
C22_MissingBundleRejected ==
    [][(bsRet'.op \in {"activate", "archive"} /\ rows[bsRet'.bundle_id] = NoRow)
          => bsRet'.result = "Err" /\ rows' = rows]_vars

\* activate was rejected for an id no row has, the table holding other rows
C22_Witness ==
    /\ bsRet.op = "activate" /\ bsRet.result = "Err"
    /\ rows[bsRet.bundle_id] = NoRow
    /\ \E x \in BundleIds : rows[x] # NoRow /\ rows[x].status = "active"


(***************************************************************************)
(*                     RELOAD AND LATER EVALUATIONS                        *)
(***************************************************************************)
ReloadReturns(r) == reloading[r] # Idle /\ reloading'[r] = Idle
EvaluateStarts(q) == querying[q] = Idle /\ querying'[q] # Idle
EvaluateEnds(q) == querying[q] # Idle /\ querying'[q] = Idle

\* C24: once reload_tenant(T) has returned successfully, the engine it built
\* is T's installed engine; the installed engine of T changes at no other
\* moment than a successful return of a reload of T; and every evaluate(T, _)
\* takes the engine installed when it starts and is answered by that engine.
\* Hence an evaluation that starts after a successful reload and before the
\* next one is evaluated by the engine that reload installed.
C24_EvaluateUsesReloadedEngine ==
    [][ /\ \A r \in Reloaders :
             (ReloadReturns(r) /\ enfRet' = ReloadRet(reloading[r].tenant_id, "Ok"))
             => engines'[reloading[r].tenant_id] =
                    TenantEngine_new(reloading[r].tenant_id, reloading[r].bundle).engine
        /\ \A t \in Tenants :
             engines'[t] # engines[t]
             => /\ enfRet' = ReloadRet(t, "Ok")
                /\ \E r \in Reloaders : ReloadReturns(r) /\ reloading[r].tenant_id = t
        /\ \A q \in Queries :
             EvaluateStarts(q) => querying'[q].engine = engines[querying'[q].tenant_id]
        /\ \A q \in Queries :
             (EvaluateEnds(q) /\ enfRet'.status = 200)
             => /\ enfRet'.engine = querying[q].engine
                /\ enfRet'.decision = parse_decision(eval_rule(querying[q].engine))
      ]_vars

\* An evaluation started on the engine a reload installed, that engine replaced
\* an earlier one (it denies, and only allow_all and deny_all engines can be
\* installed, so the reload that installed it found another engine or none),
\* and a further reload of the tenant with another bundle has loaded but not
\* yet returned.
C24_Witness ==
    \E q \in Queries, r \in Reloaders :
        /\ querying[q] # Idle /\ reloading[r] # Idle
        /\ reloading[r].tenant_id = querying[q].tenant_id
        /\ querying[q].engine = engines[querying[q].tenant_id]
        /\ querying[q].engine.policy = "deny_all"
        /\ reloading[r].bundle = "allow_all"

C25_PublishNeverBlocks ==
    stRing.tail < MaxEvents =>
        \A t \in Tenants :
            ENABLED (st_publish([tenant_id |-> t, allow |-> TRUE]) /\ StOnly)

\* A further event can be published while both connections are stalled with a
\* full queue and an event in hand, each a whole channel capacity behind: the
\* event overwrites one that neither has received.
C25_Witness ==
    /\ stRing.tail < MaxEvents
    /\ Len(stRing.buf) = EventBacklog
    /\ \A s \in Connections :
         /\ stSub[s].open /\ stSub[s].hand # NoEvent
         /\ Len(stSub[s].out) = OutCapacity
         /\ stRing.tail - stSub[s].next >= EventBacklog

\* broadcast_task's recv returned Lagged for connection s in this step
LagStep(s) ==
    /\ stSub[s].open /\ stSub'[s].open
    /\ stSub[s].next < Oldest(stRing)
    /\ stSub'[s].next = Oldest(stRing)

\* C26: when a connection has fallen more than the channel's capacity behind,
\* the step in which its receiver reports the lag queues for it a notification
\* that carries the number of skipped events; the connection stays open and
\* its next event is the oldest one the channel still holds.
C26_LaggedSubscriberIsNotified ==
    [][\A s \in Connections :
          LagStep(s) =>
             /\ stSub'[s].lagged = Oldest(stRing) - stSub[s].next
             /\ \E i \in DOMAIN stSub'[s].out :
                   /\ stSub'[s].out[i].type = "lagged"
                   /\ stSub'[s].out[i].skipped = stSub'[s].lagged
      ]_vars

\* event matches every part of filter f = [tenant_id, decision] that is set
MatchesFilter(event, f) ==
    /\ f.tenant_id # Null => event.tenant_id = f.tenant_id
    /\ f.decision # Null => event.allow = (f.decision = "allow")

\* C27: an event that broadcast_task takes from the channel for a connection
\* goes on to that connection only if it matches every part that is set of the
\* filter the connection last asked for, its tenant_id and its decision
\* (allow or deny); the step changes no other connection.
C27_FilterAppliedToEveryEvent ==
    [][\A s \in Connections :
          (/\ stSub[s].open /\ stSub'[s].open
           /\ stSub[s].hand = NoEvent /\ stSub'[s].hand # NoEvent)
          => /\ MatchesFilter(stSub'[s].hand, stSub[s].asked)
             /\ \A o \in Connections \ {s} : stSub'[o] = stSub[o]
      ]_vars


(***************************************************************************)
(*                 PROPERTIES OF THE HOT-RELOAD WATCHER                    *)
(***************************************************************************)
\* event number n is a create, modify or delete event naming t and is waiting
\* in the channel
Waiting(n, t) ==
    /\ n \in DOMAIN whEvents /\ n > whDone
    /\ whEvents[n].kind \in {"create", "modify", "remove"}
    /\ resolve_tenant_id(whEvents[n].paths) = t
Attempted(n, t) ==
    \E i \in DOMAIN whLog : whLog[i].event = n /\ whLog[i].tenant_id = t

\* C28: every create, modify or delete event under the bundles root is
\* eventually followed by a reload attempt for the tenant named by the first
\* component of its path, also when a reload attempted before it has failed.
C28_EventLeadsToReloadAttempt ==
    \A n \in 1..MaxFsEvents : \A t \in FsNames : Waiting(n, t) ~> Attempted(n, t)

\* The reload for the first event failed and the reload for a later delete
\* event was attempted.
C28_Witness ==
    \E i, j \in DOMAIN whLog :
        /\ i < j /\ whLog[i].result # "Ok"
        /\ whEvents[whLog[j].event].kind = "remove"

\* the relevant events of instant a naming t that the dispatcher has received
Burst(t, a) ==
    {n \in 1..whDone :
        /\ is_relevant_event(whEvents[n].kind)
        /\ resolve_tenant_id(whEvents[n].paths) = t
        /\ whEvents[n].at = a}
ReloadsFor(t, events) ==
    {i \in DOMAIN whLog : whLog[i].tenant_id = t /\ whLog[i].event \in events}

\* C29: a burst of n > 1 file events for one tenant at one instant, hence
\* inside any window, triggers fewer than n reloads of that tenant.
C29_BurstIsCoalesced ==
    \A t \in FsNames : \A a \in 0..MaxFsEvents :
        Cardinality(Burst(t, a)) > 1 =>
            Cardinality(ReloadsFor(t, Burst(t, a))) < Cardinality(Burst(t, a))


(***************************************************************************)
(*                 PROPERTIES OF THE MQTT SESSION STORE                    *)
(***************************************************************************)
PublishArrives(p) == publishing[p] = Idle /\ publishing'[p] # Idle
PublishEnds(p) == publishing[p] # Idle /\ publishing'[p] = Idle

\* C30: the session store holds a client id's TenantContext exactly from the
\* client's successful connect until its disconnect. A successful connect
\* stores the extracted context, a disconnect removes it, and nothing else
\* changes the store; a publish or a subscribe that arrives from a client id
\* with no stored context is rejected as not authenticated and a publish that
\* goes on to the policy query comes from a client id with a stored context.
C30_ContextFromConnectToDisconnect ==
    [][ /\ (mqttRet'.op = "connect" /\ mqttRet'.result = "Ok")
             => /\ sessions'[mqttRet'.client_id] # NoContext
                /\ sessions'[mqttRet'.client_id] =
                      extract_tenant_context(mqttRet'.client_id, mqttRet'.username,
                                             extract_cert_der).context
        /\ mqttRet'.op = "disconnect" => sessions'[mqttRet'.client_id] = NoContext
        /\ \A c \in MqttClientIds :
             sessions'[c] # sessions[c]
             => /\ mqttRet'.op \in {"connect", "disconnect"}
                /\ mqttRet'.client_id = c
                /\ mqttRet'.op = "connect" => mqttRet'.result = "Ok"
        /\ (/\ mqttRet'.op \in {"publish", "subscribe"}
            /\ \A p \in Publishers : ~PublishEnds(p)
            /\ sessions[mqttRet'.client_id] = NoContext)
             => /\ mqttRet'.result = "Client not authenticated"
                /\ UNCHANGED <<sessions, mqttQuota, publishing>>
        /\ \A p \in Publishers :
             PublishArrives(p) => sessions[publishing'[p].client_id] # NoContext
      ]_vars

\* A client that had connected and has disconnected publishes and is rejected,
\* while another client is connected.
C30_Witness ==
    /\ mqttRet.op = "publish" /\ mqttRet.result = "Client not authenticated"
    /\ sessions[mqttRet.client_id] = NoContext
    /\ mqttQuota[extract_from_client_id(mqttRet.client_id).tenant_id] # NoMetrics
    /\ \E c \in MqttClientIds : sessions[c] # NoContext


\* C31: the adapter's quota tracker changes only when a publish is accepted,
\* and then only the entry of the publisher's tenant: its message count grows
\* by one and its byte count by the payload's length (from zero when the
\* tenant has no entry or the entry's day is over). A publish rejected for a
\* missing session, a namespace violation, an exceeded quota, or a policy
\* denial or error leaves the tracker as it was.
C31_QuotaCountsAcceptedPublishesOnce ==
    [][ /\ \A p \in Publishers :
             PublishEnds(p) =>
                LET t   == publishing[p].tenant_id
                    n   == publishing[p].payload_size
                    old == mqttQuota[t]
                    new == old = NoMetrics \/ mqttNow - old.last_reset >= 1
                IN IF mqttRet'.result = "Ok"
                   THEN /\ \A u \in Tenants \ {t} : mqttQuota'[u] = mqttQuota[u]
                        /\ mqttQuota'[t].message_count =
                              (IF new THEN 0 ELSE old.message_count) + 1
                        /\ mqttQuota'[t].bytes_sent =
                              (IF new THEN 0 ELSE old.bytes_sent) + n
                   ELSE mqttQuota' = mqttQuota
        /\ mqttQuota' # mqttQuota => \E p \in Publishers : PublishEnds(p)
        /\ (mqttRet'.op = "publish" /\ mqttRet'.result # "Ok") => mqttQuota' = mqttQuota
      ]_vars

\* A publish has just been accepted for a tenant whose entry then counts two
\* messages and three bytes: a one-byte and a two-byte payload.
C31_Witness ==
    /\ mqttRet.op = "publish" /\ mqttRet.result = "Ok"
    /\ \E t \in Tenants :
         /\ mqttQuota[t] # NoMetrics
         /\ mqttQuota[t].message_count = 2
         /\ mqttQuota[t].bytes_sent = 3


(***************************************************************************)
(*                  AUDIT RECORDS OF THE HTTP ADAPTER                      *)
(***************************************************************************)
\* C32: every request the HTTP adapter completes after it reached the policy
\* boundary, whether the enforcer allowed it, denied it or failed, has an audit
\* record dispatched for it.
C32_CompletedRequestIsAudited ==
    (httpRet.op = "http" /\ httpRet.policy \in {"allow", "deny", "error"})
        => httpRet.audit # "none"


(***************************************************************************)
(*                    PROPERTIES OF THE SIGNATURES                         *)
(***************************************************************************)
\* x and y are the same document up to the order of the keys of their objects,
\* at any depth
RECURSIVE SameUpToKeyOrder(_, _)
SameUpToKeyOrder(x, y) ==
    /\ x.t = y.t /\ x.v = y.v /\ Len(x.m) = Len(y.m)
    /\ IF x.t = "obj"
       THEN \A i \in DOMAIN x.m : \E j \in DOMAIN y.m :
               x.m[i].k = y.m[j].k /\ SameUpToKeyOrder(x.m[i].v, y.m[j].v)
       ELSE \A i \in DOMAIN x.m : SameUpToKeyOrder(x.m[i].v, y.m[i].v)

\* C33: two log records with equal scalar fields whose subject, resource and
\* environment differ only in the order of their keys, at any depth, receive
\* identical signatures.
C33_KeyOrderDoesNotChangeSignature ==
    (/\ fnRet # NoRet /\ fnRet.op = "sign"
     /\ SameUpToKeyOrder(fnArgs.first.subject, fnArgs.second.subject)
     /\ SameUpToKeyOrder(fnArgs.first.resource, fnArgs.second.resource)
     /\ SameUpToKeyOrder(fnArgs.first.environment, fnArgs.second.environment))
        => fnRet.first = fnRet.second

\* Both records are signed; their subjects hold the keys of an inner object
\* and of the outer object in opposite orders, and so do their resources.
C33_Witness ==
    /\ fnRet # NoRet /\ fnRet.op = "sign"
    /\ fnArgs.first.subject # fnArgs.second.subject
    /\ fnArgs.first.resource # fnArgs.second.resource
    /\ SameUpToKeyOrder(fnArgs.first.subject, fnArgs.second.subject)
    /\ Len(fnArgs.first.subject.m) = 2
    /\ fnArgs.first.subject.m[1].k # fnArgs.second.subject.m[1].k
    /\ \E i \in 1..2 : /\ Len(fnArgs.first.subject.m[i].v.m) = 2
                       /\ fnArgs.first.subject.m[i].v.t = "obj"
                       /\ \A j \in 1..2 :
                            fnArgs.second.subject.m[j].k = fnArgs.first.subject.m[i].k
                            => fnArgs.second.subject.m[j].v # fnArgs.first.subject.m[i].v

\* C34: redacting the result of a redaction with the same paths changes
\* nothing: the second application returns the body it was given.
C34_RedactionIsIdempotent ==
    (fnRet # NoRet /\ fnRet.op = "redact" /\ fnRet.n = 2) => fnRet.body = fnRet.input

C37_SettledEngineIsFromFinalDirectory ==
    (/\ \A r \in Reloaders : reloading[r] = Idle
     /\ rdEvents = <<>>)
        => \A t \in Tenants :
              engines[t] = TenantEngine_new(t, load_bundle(rdDir[t]).bundle).engine

(***************************************************************************)
(*            PROPERTIES OF CONNECTIONS SHARING A CLIENT ID                *)
(***************************************************************************)
\* C38: while a connection is up, the session store holds for its client id
\* the context that the connection's own CONNECT established, and a publish
\* or subscribe it sends is never answered as coming from a client without
\* a context.
C38_ContextBelongsToItsConnection ==
    /\ \A k \in MqttConnections :
          cnConn[k].state = "connected"
             => sessions[cnConn[k].client_id] = cnConn[k].context
    /\ (/\ cnLast # Null
        /\ mqttRet.op \in {"publish", "subscribe"})
          => mqttRet.result # "Client not authenticated"

(***************************************************************************)
(*                 PROPERTIES OF ONE UPLOAD CYCLE                          *)
(***************************************************************************)
\* C39: a failure on one tenant's logs does not keep the other active
\* tenants' pending logs from their upload in the same cycle: when a step of
\* the task ends the cycle, no tenant that was still to come in the cycle's
\* list has a log waiting.
C39_FailureDoesNotStopCycle ==
    [][(auTask.pc \in {"fetch", "post", "mark"} /\ auTask'.pc = "tick")
          => \A i \in 2..Len(auTask.pending) :
                Unuploaded(auLogs, auTask.pending[i]) = {}]_vars

(***************************************************************************)
(*                 PROPERTIES OF THE DURABLE USAGE ROWS                    *)
(***************************************************************************)
\* C40: the bandwidth row of the current month holds no more than the bytes
\* counted during this month, and the message row of the current day no more
\* than the messages counted during this day, so that a restart reads back
\* nothing of an earlier period.
C40_UsageRowsHoldTheirPeriodOnly ==
    \A t \in QtTenants :
       /\ qtDbUsage[t][BANDWIDTH_QUOTA_TYPE][current_month_period(qtNow)] # NoRow
             => qtDbUsage[t][BANDWIDTH_QUOTA_TYPE][current_month_period(qtNow)].used
                   <= qtSum[t].bytes
       /\ qtDbUsage[t][MESSAGE_QUOTA_TYPE][current_day_period(qtNow)] # NoRow
             => qtDbUsage[t][MESSAGE_QUOTA_TYPE][current_day_period(qtNow)].used
                   <= qtSum[t].counted

====
